---- MODULE Spec2Model ----
(***************************************************************************)
(* rip2: reversible file deletion.  A model of the relocation engine       *)
(* (src/src/lib.rs) and of the provenance log (src/src/record.rs).         *)
(*                                                                         *)
(* The record file is a sequence of atoms.  An atom is one piece of text   *)
(* handed to a single write: a tab, a newline, a header word, a timestamp  *)
(* or a displayed path.  Lines and columns are obtained by splitting the   *)
(* atoms on newlines and tabs, the way BufRead::lines and str::split do.   *)
(***************************************************************************)
EXTENDS Integers, Sequences, FiniteSets, TLC

VARIABLES
    fs,        \* the filesystem: a function from the existing paths to their files
    gdirs,     \* the mirrored directories that exist under the graveyard
    gyard,     \* TRUE iff the graveyard root directory exists
    record,    \* the record file: NoFile or its sequence of atoms
    now,       \* the clock Local::now() reads
    made,      \* how many files the user has created so far
    prev,      \* the completed operation before the last one
    last,      \* the last completed operation
    proc,      \* the concurrent processes: their position, handle and pending writes
    lockHolder,\* the process whose handle holds the exclusive lock, 0 when free
    fileLock,  \* the FILE_LOCK parameter of Record
    ts,        \* the text of a time column handed to parse_timestamp
    tsres,     \* what parse_timestamp returned for it
    how,       \* the options, the answers and the prompts of the last operation
    modes      \* the permission bits of the directories, by path

vars == <<fs, gdirs, gyard, record, now, made, prev, last, proc, lockHolder, fileLock,
          ts, tsres, how, modes>>

\* The state of the sequential system, of the concurrent processes, of the
\* timestamp parser
concVars == <<proc, lockHolder, fileLock>>
tsVars == <<ts, tsres>>

---------------------------------------------------------------------------
\* Bounds of the model
MaxClock == 3
MaxCreate == 3
MaxSuffix == 2

Dirs == {"x"}
Bases == {"a"}
BIG_FILE_THRESHOLD == 500000000

---------------------------------------------------------------------------
\* Paths.  area "src" is the user's tree, area "grave" the mirrored tree
\* under the graveyard root; sfx is the chain of ~N suffixes of the name.
Loc(area, dir, base, sfx) == [area |-> area, dir |-> dir, base |-> base, sfx |-> sfx]

NoLoc == Loc("", "", "", <<>>)

\* What symlink_metadata tells of an object (lib.rs:467-468): its length and
\* its type, "file", "fifo", "symlink" or "special" (a socket, a device)
Object(data, len, kind) == [data |-> data, len |-> len, kind |-> kind]

File(data, len) == Object(data, len, "file")

NoFile == <<[k |-> "nofile", t |-> 0, p |-> NoLoc]>>

\* util::symlink_exists
symlink_exists(f, l) == l \in DOMAIN f

\* util::join_absolute(graveyard, source): the mirrored path of source
join_absolute(l) == [l EXCEPT !.area = "grave"]

WithSuffix(l, n) == [l EXCEPT !.sfx = Append(l.sfx, n)]

FreeSuffixes(f, l) == {n \in 1..MaxSuffix : ~symlink_exists(f, WithSuffix(l, n))}

\* util::rename_grave: the first name~N that does not exist, N = 1, 2, ...
rename_grave(f, l) ==
    WithSuffix(l, CHOOSE n \in FreeSuffixes(f, l) : \A m \in FreeSuffixes(f, l) : n <= m)

---------------------------------------------------------------------------
\* Atoms of the record file
Tab == [k |-> "tab", t |-> 0, p |-> NoLoc]
Nl == [k |-> "nl", t |-> 0, p |-> NoLoc]
Word(w) == [k |-> w, t |-> 0, p |-> NoLoc]
TimeAtom(t) == [k |-> "time", t |-> t, p |-> NoLoc]
PathAtom(l) == [k |-> "path", t |-> 0, p |-> l]

\* The header line "Time\tOriginal\tDestination" (record.rs:107, 250)
HeaderLine == <<Word("Time"), Tab, Word("Original"), Tab, Word("Destination")>>

\* One data row "{time}\t{source}\t{dest}" without its newline (record.rs:253-259)
RowLine(t, source, dest) == <<TimeAtom(t), Tab, PathAtom(source), Tab, PathAtom(dest)>>

RECURSIVE SplitOn(_, _, _)
\* The pieces of s between the separators sep; cur is the piece being read.
\* A trailing empty piece is kept, as str::split keeps it.
SplitOn(s, sep, cur) ==
    IF s = <<>> THEN <<cur>>
    ELSE IF Head(s) = sep THEN <<cur>> \o SplitOn(Tail(s), sep, <<>>)
    ELSE SplitOn(Tail(s), sep, Append(cur, Head(s)))

\* BufRead::lines / str::lines: the newline-terminated lines; a last line
\* without a newline counts when it is not empty.
Lines(s) ==
    LET pieces == SplitOn(s, Nl, <<>>)
    IN  IF pieces[Len(pieces)] = <<>> THEN SubSeq(pieces, 1, Len(pieces) - 1) ELSE pieces

\* line.split('\t')
Columns(line) == SplitOn(line, Tab, <<>>)

\* RecordItem::new needs three columns (it panics on fewer)
WellFormed(line) == Len(Columns(line)) >= 3

\* RecordItem::new(line).dest and .orig: the text of columns 3 and 2
RowDest(line) == Columns(line)[3]
RowOrig(line) == Columns(line)[2]
RowTime(line) == Columns(line)[1]

\* The path a column's text denotes
AsLoc(col) == IF Len(col) = 1 /\ col[1].k = "path" THEN col[1].p ELSE NoLoc

RECURSIVE Flatten(_)
\* writeln!(file, "{}", line) for every line
Flatten(lines) ==
    IF lines = <<>> THEN <<>> ELSE Head(lines) \o <<Nl>> \o Flatten(Tail(lines))

RECURSIVE SelectLines(_, _)
\* The lines whose destination is one of graves, in file order
SelectLines(lines, graves) ==
    IF lines = <<>> THEN <<>>
    ELSE IF AsLoc(RowDest(Head(lines))) \in graves
         THEN <<Head(lines)>> \o SelectLines(Tail(lines), graves)
         ELSE SelectLines(Tail(lines), graves)

\* RejectLines with the test inverted
RejectLines_inverted(lines, graves) == SelectLines(lines, graves)

RECURSIVE RejectLines(_, _)
\* The lines whose destination is none of graves, in file order
RejectLines(lines, graves) ==
    IF lines = <<>> THEN <<>>
    ELSE IF AsLoc(RowDest(Head(lines))) \in graves
         THEN RejectLines(Tail(lines), graves)
         ELSE <<Head(lines)>> \o RejectLines(Tail(lines), graves)

AllWellFormed(lines) == \A i \in 1..Len(lines) : WellFormed(lines[i])

\* The lines after the first one (reader.next() skips the header)
Body(lines) == IF lines = <<>> THEN <<>> ELSE Tail(lines)

---------------------------------------------------------------------------
\* The provenance log (record.rs)

\* Record::new: create the record file with the header when it is absent
RecordNew(rec) == IF rec = NoFile THEN Flatten(<<HeaderLine>>) ELSE rec

\* A handle returned by Record::open reads from offset 0
OpenOffset == 0

\* record.rs:162-170: the header and the lines delete_lines keeps, read from
\* offset off of the file
lines_to_write(rec, off, graves) ==
    LET ls == Lines(SubSeq(rec, off + 1, Len(rec)))
        header == IF ls = <<>> THEN <<>> ELSE Head(ls)
    IN  <<header>> \o RejectLines(Body(ls), graves)

\* Record::delete_lines(record_file, graves): record_file is an open handle
\* whose read offset is off.  The header is the first line read from there
\* (the empty string when nothing is left to read), the lines kept are the
\* following ones whose destination is not in graves; the file is then
\* truncated and rewritten.  A line with fewer than three columns panics
\* before anything is written.
delete_lines(rec, off, graves) ==
    IF ~AllWellFormed(Body(Lines(SubSeq(rec, off + 1, Len(rec)))))
    THEN [res |-> "panic", rec |-> rec]
    ELSE [res |-> "Ok", rec |-> Flatten(lines_to_write(rec, off, graves))]

\* Record::log_exhumed_graves: reopen the record and delete the lines
log_exhumed_graves(rec, graves) ==
    IF rec = NoFile THEN [res |-> "NotFound", rec |-> rec]
    ELSE delete_lines(rec, OpenOffset, graves)

RECURSIVE ScanLast_inverted(_, _, _, _)
\* ScanLast with the test for the grave inverted
ScanLast_inverted(rows, i, f, stale) ==
    IF i = 0 THEN [res |-> "NotFound", dest |-> NoLoc, stale |-> stale]
    ELSE IF ~WellFormed(rows[i]) THEN [res |-> "panic", dest |-> NoLoc, stale |-> stale]
    ELSE LET d == AsLoc(RowDest(rows[i]))
         IN  IF ~symlink_exists(f, d)
             THEN [res |-> "Ok", dest |-> d, stale |-> stale]
             ELSE ScanLast_inverted(rows, i - 1, f, stale \cup {d})

RECURSIVE ScanLast(_, _, _, _)
\* The loop of get_last_bury over the rows, newest first: i is the row looked
\* at, stale the destinations found missing so far.
ScanLast(rows, i, f, stale) ==
    IF i = 0 THEN [res |-> "NotFound", dest |-> NoLoc, stale |-> stale]
    ELSE IF ~WellFormed(rows[i]) THEN [res |-> "panic", dest |-> NoLoc, stale |-> stale]
    ELSE LET d == AsLoc(RowDest(rows[i]))
         IN  IF symlink_exists(f, d)
             THEN [res |-> "Ok", dest |-> d, stale |-> stale]
             ELSE ScanLast(rows, i - 1, f, stale \cup {d})

\* Record::get_last_bury: the handle is read to its end (read_to_string),
\* the rows are scanned newest first, and the stale destinations met on the
\* way are deleted through the same handle.
get_last_bury(rec, f) ==
    IF rec = NoFile THEN [res |-> "NotFound", dest |-> NoLoc, rec |-> rec]
    ELSE LET rows == Body(Lines(rec))
             scan == ScanLast(rows, Len(rows), f, {})
             offsetAfterRead == Len(rec)
             del == delete_lines(rec, offsetAfterRead, scan.stale)
         IN  IF scan.res = "panic" THEN [res |-> "panic", dest |-> NoLoc, rec |-> rec]
             ELSE IF scan.stale = {} THEN [res |-> scan.res, dest |-> scan.dest, rec |-> rec]
             ELSE [res |-> IF del.res = "Ok" THEN scan.res ELSE del.res,
                   dest |-> scan.dest, rec |-> del.rec]

\* Record::lines_of_graves: the lines after the header whose destination is
\* one of graves
lines_of_graves(rec, graves) == SelectLines(Body(Lines(rec)), graves)

RECURSIVE UnderPrefix(_, _)
UnderPrefix(lines, dir) ==
    IF lines = <<>> THEN <<>>
    ELSE LET d == AsLoc(RowDest(Head(lines)))
         IN  IF d.area = "grave" /\ d.dir = dir
             THEN <<Head(lines)>> \o UnderPrefix(Tail(lines), dir)
             ELSE UnderPrefix(Tail(lines), dir)

\* Record::seance(gravepath): the first line is skipped, the rows whose
\* destination starts with gravepath = graveyard + cwd are yielded in file order
seance(rec, cwd) ==
    IF rec = NoFile THEN [res |-> "NotFound", rows |-> <<>>]
    ELSE IF ~AllWellFormed(Body(Lines(rec))) THEN [res |-> "panic", rows |-> <<>>]
    ELSE [res |-> "Ok", rows |-> UnderPrefix(Body(Lines(rec)), cwd)]

\* write_log with the original and the destination columns exchanged
write_log_swapped(rec, t, source, dest) ==
    IF rec # NoFile
    THEN rec \o RowLine(t, dest, source) \o <<Nl>>
    ELSE HeaderLine \o <<Nl>> \o RowLine(t, dest, source) \o <<Nl>>

\* Record::write_log: append one row, after the header when the file is new
write_log(rec, t, source, dest) ==
    IF rec # NoFile
    THEN rec \o RowLine(t, source, dest) \o <<Nl>>
    ELSE HeaderLine \o <<Nl>> \o RowLine(t, source, dest) \o <<Nl>>

---------------------------------------------------------------------------
\* The relocation engine (lib.rs)

Remove(f, l) == [x \in DOMAIN f \ {l} |-> f[x]]
Put(f, l, file) == [x \in DOMAIN f \cup {l} |-> IF x = l THEN file ELSE f[x]]

\* The parent directory of a path exists: the user's directories always do,
\* a mirrored directory only once it was created
ParentExists(gd, l) == l.area = "src" \/ l.dir \in gd

\* create_dirs_with_permissions: fs::create_dir_all(dest.parent())
create_dirs_with_permissions(gd, dest) ==
    IF dest.area = "grave" THEN gd \cup {dest.dir} ELSE gd

\* copy_file with the specific error of a special file left out
copy_file_no_error(file, force, ans) ==
    IF file.len > BIG_FILE_THRESHOLD /\ ~force /\ ans.big
    THEN [res |-> "false", asked |-> {"big"}]
    ELSE [res |-> "true",
          asked |-> IF file.len > BIG_FILE_THRESHOLD /\ ~force THEN {"big"} ELSE {}]

\* copy_file (lib.rs:461-529).  res is "true" or "false" (the Ok values) or
\* "err"; asked are the prompts shown.  ans.big and ans.special are the
\* answers prompt_yes returns, ans.copies tells whether fs::copy of a
\* special file works.
copy_file(file, force, ans) ==
    LET bigAsked == IF file.len > BIG_FILE_THRESHOLD /\ ~force THEN {"big"} ELSE {}
    IN  IF file.len > BIG_FILE_THRESHOLD /\ ~force /\ ans.big
        THEN [res |-> "false", asked |-> bigAsked]
        ELSE IF file.kind \in {"file", "fifo", "symlink"}
        THEN [res |-> "true", asked |-> bigAsked]
        ELSE IF ans.copies
        THEN [res |-> "true", asked |-> bigAsked]
        ELSE IF ~force
        THEN [res |-> IF ans.special THEN "false" ELSE "err",
              asked |-> bigAsked \cup {"special"}]
        ELSE [res |-> "err", asked |-> bigAsked]

\* move_target leaving the target in place when copy_file returns false
move_target_keeps_declined(f, gd, target, dest, allow_rename, force, ans) ==
    IF allow_rename /\ symlink_exists(f, target) /\ ParentExists(gd, dest)
    THEN [fs |-> Put(Remove(f, target), dest, f[target]), gdirs |-> gd, res |-> "true",
          asked |-> {}]
    ELSE LET gd1 == create_dirs_with_permissions(gd, dest)
         IN  IF ~symlink_exists(f, target)
             THEN [fs |-> f, gdirs |-> gd1, res |-> "err", asked |-> {}]
             ELSE LET cp == copy_file(f[target], force, ans)
                  IN  IF cp.res = "err"
                      THEN [fs |-> f, gdirs |-> gd1, res |-> "err", asked |-> cp.asked]
                      ELSE IF cp.res = "false"
                      THEN [fs |-> f, gdirs |-> gd1, res |-> "false", asked |-> cp.asked]
                      ELSE [fs |-> Put(Remove(f, target), dest, f[target]),
                            gdirs |-> gd1, res |-> "true", asked |-> cp.asked]

\* move_target(target, dest, allow_rename, .., force).  fs::rename works when
\* the target exists and the parent of dest exists (allow_rename = FALSE
\* stands for a rename across mount points as well).  res is "true" or
\* "false" (the Ok values) or "err".
move_target(f, gd, target, dest, allow_rename, force, ans) ==
    IF allow_rename /\ symlink_exists(f, target) /\ ParentExists(gd, dest)
    THEN [fs |-> Put(Remove(f, target), dest, f[target]), gdirs |-> gd, res |-> "true",
          asked |-> {}]
    ELSE LET gd1 == create_dirs_with_permissions(gd, dest)
         IN  IF ~symlink_exists(f, target)
             THEN [fs |-> f, gdirs |-> gd1, res |-> "err", asked |-> {}]
             ELSE LET cp == copy_file(f[target], force, ans)
                  IN  IF cp.res = "err"
                      THEN [fs |-> f, gdirs |-> gd1, res |-> "err", asked |-> cp.asked]
                      ELSE IF cp.res = "false"
                      THEN [fs |-> Remove(f, target), gdirs |-> gd1, res |-> "false",
                            asked |-> cp.asked]
                      ELSE [fs |-> Put(Remove(f, target), dest, f[target]),
                            gdirs |-> gd1, res |-> "true", asked |-> cp.asked]

\* bury_dest without the check for a name conflict
bury_dest_nocheck(f, source) == join_absolute(source)

\* lib.rs:201-209: the destination of a burial, the mirrored path or, when
\* that exists, its first free ~N name
bury_dest(f, source) ==
    LET dest == join_absolute(source)
    IN  IF symlink_exists(f, dest) THEN rename_grave(f, dest) ELSE dest

\* The record file, .record directly under the graveyard root (record.rs:93)
RecordLoc == Loc("grave", "", ".record", <<>>)

\* symlink_metadata succeeding for every path
Exists_always(st, l) == TRUE

\* fs::symlink_metadata(target) succeeds (lib.rs:153): the record file is
\* kept apart from the other objects
Exists(st, l) == IF l = RecordLoc THEN st.record # NoFile ELSE symlink_exists(st.fs, l)

\* lib.rs:189-193: remove_dir_all(source), or remove_file when that fails
Unlink(st, l) ==
    IF l = RecordLoc THEN [st EXCEPT !.record = NoFile]
    ELSE [st EXCEPT !.fs = Remove(st.fs, l)]

\* should_we_bury_this taking every answer for a yes
should_we_bury_this_always(ans) == TRUE

\* should_we_bury_this (lib.rs:225-285): the target is described and the
\* answer to "Send ... to the graveyard?" is returned
should_we_bury_this(ans) == ans.inspect

\* The user's answers and the options of one invocation
Answers == [inspect : BOOLEAN, grave : BOOLEAN, big : BOOLEAN, special : BOOLEAN,
            copies : BOOLEAN]
Options == [inspect : BOOLEAN, force : BOOLEAN, allow_rename : BOOLEAN]

\* bury_target writing the row whenever the move returns Ok, also when the
\* target was deleted instead of copied
bury_target_logs_deleted(st, target, opt, ans) ==
    LET inspected == IF opt.inspect THEN {"inspect"} ELSE {}
    IN
    IF ~Exists(st, target)
    THEN [st |-> st, res |-> "NotFound", dest |-> NoLoc, moved |-> FALSE, asked |-> {}]
    ELSE IF opt.inspect /\ ~should_we_bury_this(ans)
    THEN [st |-> st, res |-> "Ok", dest |-> NoLoc, moved |-> FALSE, asked |-> inspected]
    ELSE IF target.area = "grave"
    THEN IF opt.force \/ ans.grave
         THEN [st |-> Unlink(st, target),
               res |-> "Ok", dest |-> NoLoc, moved |-> FALSE,
               asked |-> inspected \cup (IF opt.force THEN {} ELSE {"grave"})]
         ELSE [st |-> st, res |-> "Ok", dest |-> NoLoc, moved |-> FALSE,
               asked |-> inspected \cup {"grave"}]
    ELSE LET dest == bury_dest(st.fs, target)
             mv == move_target(st.fs, st.gdirs, target, dest, opt.allow_rename,
                               opt.force, ans)
         IN  IF mv.res = "err"
             THEN [st |-> [st EXCEPT !.fs = mv.fs, !.gdirs = mv.gdirs],
                   res |-> "Failed to bury file", dest |-> dest, moved |-> FALSE,
                   asked |-> inspected \cup mv.asked]
             ELSE IF mv.res = "true"
             THEN [st |-> [fs |-> mv.fs, gdirs |-> mv.gdirs,
                           record |-> write_log(st.record, st.now, target, dest),
                           now |-> st.now + 1],
                   res |-> "Ok", dest |-> dest, moved |-> TRUE,
                   asked |-> inspected \cup mv.asked]
             ELSE [st |-> [fs |-> mv.fs, gdirs |-> mv.gdirs,
                           record |-> write_log(st.record, st.now, target, dest),
                           now |-> st.now + 1],
                   res |-> "Ok", dest |-> dest, moved |-> FALSE,
                   asked |-> inspected \cup mv.asked]

\* bury_target: st is the state it works on, [fs, gdirs, record, now];
\* asked are the prompts shown
bury_target(st, target, opt, ans) ==
    LET inspected == IF opt.inspect THEN {"inspect"} ELSE {}
    IN
    IF ~Exists(st, target)
    THEN [st |-> st, res |-> "NotFound", dest |-> NoLoc, moved |-> FALSE, asked |-> {}]
    ELSE IF opt.inspect /\ ~should_we_bury_this(ans)
    THEN [st |-> st, res |-> "Ok", dest |-> NoLoc, moved |-> FALSE, asked |-> inspected]
    ELSE IF target.area = "grave"
    THEN IF opt.force \/ ans.grave
         THEN [st |-> Unlink(st, target),
               res |-> "Ok", dest |-> NoLoc, moved |-> FALSE,
               asked |-> inspected \cup (IF opt.force THEN {} ELSE {"grave"})]
         ELSE [st |-> st, res |-> "Ok", dest |-> NoLoc, moved |-> FALSE,
               asked |-> inspected \cup {"grave"}]
    ELSE LET dest == bury_dest(st.fs, target)
             mv == move_target(st.fs, st.gdirs, target, dest, opt.allow_rename,
                               opt.force, ans)
         IN  IF mv.res = "err"
             THEN [st |-> [st EXCEPT !.fs = mv.fs, !.gdirs = mv.gdirs],
                   res |-> "Failed to bury file", dest |-> dest, moved |-> FALSE,
                   asked |-> inspected \cup mv.asked]
             ELSE IF mv.res = "true"
             THEN [st |-> [fs |-> mv.fs, gdirs |-> mv.gdirs,
                           record |-> write_log(st.record, st.now, target, dest),
                           now |-> st.now + 1],
                   res |-> "Ok", dest |-> dest, moved |-> TRUE,
                   asked |-> inspected \cup mv.asked]
             ELSE [st |-> [st EXCEPT !.fs = mv.fs, !.gdirs = mv.gdirs],
                   res |-> "Ok", dest |-> dest, moved |-> FALSE,
                   asked |-> inspected \cup mv.asked]

RECURSIVE ExhumeAll_in_place(_, _, _, _, _)
\* ExhumeAll returning every grave to the path its row records, occupied or not
ExhumeAll_in_place(lines, f, gd, opt, ans) ==
    IF lines = <<>>
    THEN [fs |-> f, gdirs |-> gd, res |-> "Ok", origs |-> <<>>, entries |-> <<>>,
          asked |-> {}]
    ELSE LET entryOrig == AsLoc(RowOrig(Head(lines)))
             entryDest == AsLoc(RowDest(Head(lines)))
             mv == move_target(f, gd, entryDest, entryOrig, opt.allow_rename,
                               opt.force, ans)
         IN  IF mv.res = "err"
             THEN [fs |-> mv.fs, gdirs |-> mv.gdirs, res |-> "Unbury failed",
                   origs |-> <<>>, entries |-> <<>>, asked |-> mv.asked]
             ELSE LET rest == ExhumeAll_in_place(Tail(lines), mv.fs, mv.gdirs, opt, ans)
                  IN  [rest EXCEPT !.origs = <<entryOrig>> \o rest.origs,
                                   !.entries = <<entryOrig>> \o rest.entries,
                                   !.asked = mv.asked \cup rest.asked]

RECURSIVE ExhumeAll(_, _, _, _, _)
\* lib.rs:85-110: the loop of run over the lines of the graves to exhume.
\* origs are the paths the graves were returned to, entries the original
\* paths their rows record, asked the prompts shown.  res "bound" marks a run
\* that needs a suffix above MaxSuffix.
ExhumeAll(lines, f, gd, opt, ans) ==
    IF lines = <<>>
    THEN [fs |-> f, gdirs |-> gd, res |-> "Ok", origs |-> <<>>, entries |-> <<>>,
          asked |-> {}]
    ELSE LET entryOrig == AsLoc(RowOrig(Head(lines)))
             entryDest == AsLoc(RowDest(Head(lines)))
         IN  IF symlink_exists(f, entryOrig) /\ FreeSuffixes(f, entryOrig) = {}
             THEN [fs |-> f, gdirs |-> gd, res |-> "bound", origs |-> <<>>,
                   entries |-> <<>>, asked |-> {}]
             ELSE
             LET orig == IF symlink_exists(f, entryOrig) THEN rename_grave(f, entryOrig)
                         ELSE entryOrig
                 mv == move_target(f, gd, entryDest, orig, opt.allow_rename,
                                   opt.force, ans)
             IN  IF mv.res = "err"
                 THEN [fs |-> mv.fs, gdirs |-> mv.gdirs, res |-> "Unbury failed",
                       origs |-> <<>>, entries |-> <<>>, asked |-> mv.asked]
                 ELSE LET rest == ExhumeAll(Tail(lines), mv.fs, mv.gdirs, opt, ans)
                      IN  [rest EXCEPT !.origs = <<orig>> \o rest.origs,
                                       !.entries = <<entryOrig>> \o rest.entries,
                                       !.asked = mv.asked \cup rest.asked]


---------------------------------------------------------------------------
\* The rows of a record file
Rows(rec) == IF rec = NoFile THEN <<>> ELSE Body(Lines(rec))

\* The first line of a record file (<<>> when it has none)
FirstLine(rec) == IF rec = NoFile \/ Lines(rec) = <<>> THEN <<>> ELSE Head(Lines(rec))

\* The destinations the record names
RecordedDests(rec) ==
    LET rows == Rows(rec)
    IN  {AsLoc(RowDest(rows[i])) : i \in {j \in 1..Len(rows) : WellFormed(rows[j])}}

GraveLocs(f) == {l \in DOMAIN f : l.area = "grave"}

\* What the properties need of a completed operation: the operation, its
\* target and the file it held, the destination chosen, the results, and of
\* the state before it: the number of rows (n0) and the first line (h0) of
\* the record as Record::new left it, whether the mirrored path of the target
\* existed (taken) and which of its ~N names were free (free0); of an unbury
\* the original paths recorded by the rows it exhumed (entries) and the
\* objects outside the graveyard before it (src0) and the destination of the
\* newest row whose grave existed before it (live0); the operations on the
\* record alone keep the whole record (rec0).
NoOp ==
    [op |-> "none", target |-> NoLoc, file |-> File(0, 0), dest |-> NoLoc,
     moved |-> FALSE, res |-> "", explicit |-> {}, seance |-> FALSE,
     graves |-> {}, origs |-> <<>>, entries |-> <<>>, src0 |-> <<>>, live0 |-> NoLoc,
     n0 |-> 0, h0 |-> <<>>, taken |-> FALSE, free0 |-> {}, rec0 |-> NoFile]

\* What is kept of the operation before the last one
Older(o) == [op |-> o.op, target |-> o.target, file |-> o.file, dest |-> o.dest,
             moved |-> o.moved, n0 |-> o.n0, h0 |-> o.h0]

\* The destination of the last row of rec, in file order, whose grave exists
\* in f; NoLoc when there is none
NewestLive(rec, f) ==
    LET rows == Rows(rec)
        live == {i \in 1..Len(rows) :
                    WellFormed(rows[i]) /\ symlink_exists(f, AsLoc(RowDest(rows[i])))}
    IN  IF live = {} THEN NoLoc
        ELSE AsLoc(RowDest(rows[CHOOSE i \in live : \A j \in live : j <= i]))

Before(rec) ==
    [NoOp EXCEPT !.n0 = Len(Rows(RecordNew(rec))), !.h0 = FirstLine(RecordNew(rec))]

SrcLocs == {Loc("src", d, b, s) : d \in Dirs, b \in Bases, s \in {<<>>, <<1>>}}

IsBig(file) == file.len > BIG_FILE_THRESHOLD

\* The prompts that are not asked are answered FALSE
\* and force is left out where nothing consults it
BuryOptions(f, target) ==
    [inspect : BOOLEAN, allow_rename : BOOLEAN,
     force : IF target.area = "grave" \/ IsBig(f[target]) \/ f[target].kind = "special"
             THEN BOOLEAN ELSE {FALSE}]
BuryAnswers(f, target, opt) ==
    [inspect : IF opt.inspect THEN BOOLEAN ELSE {FALSE},
     grave : IF target.area = "grave" /\ ~opt.force THEN BOOLEAN ELSE {FALSE},
     big : IF target.area = "src" /\ IsBig(f[target]) /\ ~opt.force THEN BOOLEAN ELSE {FALSE},
     special : IF target.area = "src" /\ f[target].kind = "special" /\ ~opt.force
               THEN BOOLEAN ELSE {FALSE},
     copies : IF target.area = "src" /\ f[target].kind = "special" THEN BOOLEAN ELSE {FALSE}]
UnburyOptions(f) ==
    [inspect : {FALSE}, allow_rename : BOOLEAN,
     force : IF \E l \in GraveLocs(f) : IsBig(f[l]) \/ f[l].kind = "special"
             THEN BOOLEAN ELSE {FALSE}]
UnburyAnswers(f, opt) ==
    [inspect : {FALSE}, grave : {FALSE},
     big : IF ~opt.force /\ (\E l \in GraveLocs(f) : IsBig(f[l])) THEN BOOLEAN ELSE {FALSE},
     special : IF ~opt.force /\ (\E l \in GraveLocs(f) : f[l].kind = "special")
               THEN BOOLEAN ELSE {FALSE},
     copies : IF \E l \in GraveLocs(f) : f[l].kind = "special" THEN BOOLEAN ELSE {FALSE}]

---------------------------------------------------------------------------
Procs == {1, 2}

\* A process that runs nothing
IdleProc == [pc |-> "done", todo |-> <<>>, ran |-> <<>>, existed |-> FALSE,
             mode |-> "closed", off |-> 0, queue |-> <<>>]

\* record.rs:84-85: DEFAULT_FILE_LOCK is true except on Windows
Idle ==
    /\ proc = [p \in Procs |-> IdleProc]
    /\ lockHolder = 0
    /\ fileLock = TRUE

\* No operation has been observed with its options yet
NoHow == [force |-> FALSE, inspect |-> FALSE, allow_rename |-> FALSE, asked |-> {},
          big |-> FALSE, special |-> FALSE, copies |-> FALSE]

\* No time column has been listed yet
NoListing == [done |-> FALSE, rfc |-> FALSE, ok |-> FALSE, kind |-> "none",
              msg |-> "", names |-> <<>>]

\* No directory is looked at
NoModes == <<>>

NoStamp ==
    /\ ts = <<>>
    /\ tsres = NoListing

---------------------------------------------------------------------------
\* The sequential system: one process, one invocation of run at a time

Init ==
    /\ fs = <<>>
    /\ gdirs = {}
    /\ gyard = FALSE
    /\ record = NoFile
    /\ now = 0
    /\ made = 0
    /\ prev = Older(NoOp)
    /\ last = NoOp
    /\ Idle
    /\ NoStamp
    /\ modes = NoModes
    /\ how = NoHow

\* The user creates a regular file in one of the directories; its content is
\* new (the files are numbered as they are made)
CreateFile(l) ==
    /\ made < MaxCreate
    /\ ~symlink_exists(fs, l)
    /\ fs' = Put(fs, l, File(made + 1, 100))
    /\ made' = made + 1
    /\ prev' = Older(last)
    /\ last' = [Before(record) EXCEPT !.op = "create", !.target = l, !.res = "Ok",
                                      !.file = File(made + 1, 100)]
    /\ UNCHANGED <<gdirs, gyard, record, now, concVars, tsVars, modes, how>>

\* --force and --inspect never taken to be in conflict
force_with_inspect_never(cli) == FALSE

\* The conflict of options that test_force_inspect_error expects run to
\* reject (tests/integration_tests.rs:1384-1406)
force_with_inspect(cli) == cli.force /\ cli.inspect

\* validate_args taking every combination of options
validate_args_accepts(cli) == "Ok"

\* args::validate_args, called first by run (lib.rs:35): --decompose goes
\* with none of --seance, --unbury, --inspect (args.rs:113-118), and --force
\* and --inspect cannot be used together (tests/integration_tests.rs:1384-1406).
\* Both errors are of kind InvalidInput.
validate_args(cli) ==
    IF cli.decompose /\ (cli.seance \/ cli.unbury \/ cli.inspect)
    THEN "-d,--decompose can only be used with --graveyard"
    ELSE IF force_with_inspect(cli)
    THEN "-f,--force and -i,--inspect cannot be used together"
    ELSE "Ok"

\* The command line of a run that buries: neither --decompose, --seance nor
\* --unbury is given
BuryArgs(opt) ==
    [decompose |-> FALSE, seance |-> FALSE, unbury |-> FALSE, inspect |-> opt.inspect,
     force |-> opt.force]

\* run with one target: the arguments are validated (lib.rs:35), the record
\* is made when missing (lib.rs:51) and the target is buried (lib.rs:121-135)
run_bury(f, gd, rec, t, target, opt, ans) ==
    IF validate_args(BuryArgs(opt)) # "Ok"
    THEN [st |-> [fs |-> f, gdirs |-> gd, record |-> rec, now |-> t],
          res |-> validate_args(BuryArgs(opt)), dest |-> NoLoc, moved |-> FALSE, asked |-> {}]
    ELSE bury_target([fs |-> f, gdirs |-> gd, record |-> RecordNew(rec), now |-> t],
                     target, opt, ans)

\* run with one target: lib.rs:34-51 (graveyard and record are created on
\* first use) and lib.rs:121-135.  A run whose arguments are rejected is
\* observed as "rejected" and changes nothing.
BuryStep(target, opt, ans) ==
    /\ now < MaxClock
    /\ target.area = "src" /\ symlink_exists(fs, join_absolute(target))
          => FreeSuffixes(fs, join_absolute(target)) # {}
    /\ \E b \in {run_bury(fs, gdirs, record, now, target, opt, ans)} :
           /\ fs' = b.st.fs
           /\ gdirs' = b.st.gdirs
           /\ record' = b.st.record
           /\ now' = b.st.now
           /\ gyard' = (gyard \/ validate_args(BuryArgs(opt)) = "Ok")
           /\ prev' = Older(last)
           /\ last' = [Before(record) EXCEPT
                          !.op = IF validate_args(BuryArgs(opt)) = "Ok" THEN "bury"
                                 ELSE "rejected",
                          !.target = target,
                          !.file = fs[target], !.dest = b.dest, !.moved = b.moved,
                          !.res = b.res,
                          !.taken = symlink_exists(fs, join_absolute(target)),
                          !.free0 = FreeSuffixes(fs, join_absolute(target))]
    /\ UNCHANGED <<made, concVars, tsVars, modes>>

Bury(target, opt, ans) ==
    /\ BuryStep(target, opt, ans)
    /\ UNCHANGED how

\* lib.rs:60-111, the --unbury branch of run on the record rec1 that
\* Record::new left: explicit are the destinations given on the command
\* line, withSeance is --seance, cwd the current directory.
unbury(rec1, f, gd, explicit, withSeance, cwd, opt, ans) ==
    LET sc == seance(rec1, cwd)
        listed == IF withSeance
                  THEN {AsLoc(RowDest(sc.rows[i])) : i \in 1..Len(sc.rows)} ELSE {}
        g1 == explicit \cup listed
        glb == get_last_bury(rec1, f)
        g2 == IF g1 # {} THEN g1 ELSE IF glb.res = "Ok" THEN {glb.dest} ELSE {}
        rec2 == IF g1 # {} THEN rec1 ELSE glb.rec
        ex == ExhumeAll(lines_of_graves(rec2, g2), f, gd, opt, ans)
        del == log_exhumed_graves(rec2, g2)
    IN  [fs |-> ex.fs, gdirs |-> ex.gdirs, graves |-> g2, origs |-> ex.origs,
         entries |-> ex.entries, asked |-> ex.asked,
         res |-> IF ex.res = "Ok" THEN del.res ELSE ex.res,
         record |-> IF ex.res = "Ok" THEN del.rec ELSE rec2]

Unbury(explicit, withSeance, cwd, opt, ans) ==
    /\ \E u \in {unbury(RecordNew(record), fs, gdirs, explicit, withSeance, cwd, opt, ans)} :
        /\ u.res # "bound"
        /\ fs' = u.fs
        /\ gdirs' = u.gdirs
        /\ gyard' = TRUE
        /\ record' = u.record
        /\ prev' = Older(last)
        /\ last' = [Before(record) EXCEPT !.op = "unbury", !.explicit = explicit,
                       !.seance = withSeance, !.graves = u.graves,
                       !.res = u.res, !.origs = u.origs, !.entries = u.entries,
                       !.src0 = [l \in DOMAIN fs \ GraveLocs(fs) |-> fs[l]],
                       !.live0 = NewestLive(record, fs)]
    /\ UNCHANGED <<now, made, concVars, tsVars, modes, how>>

Next ==
    \/ \E l \in SrcLocs : CreateFile(l)
    \/ \E target \in DOMAIN fs : \E opt \in BuryOptions(fs, target) :
          \E ans \in BuryAnswers(fs, target, opt) : Bury(target, opt, ans)
    \/ \E explicit \in {{}} \cup {{d} : d \in RecordedDests(record)},
          withSeance \in BOOLEAN, cwd \in Dirs, opt \in UnburyOptions(fs) :
          \E ans \in UnburyAnswers(fs, opt) : Unbury(explicit, withSeance, cwd, opt, ans)

Spec == Init /\ [][Next]_vars

TypeOK ==
    /\ now \in 0..MaxClock
    /\ made \in 0..MaxCreate
    /\ gdirs \subseteq Dirs

---------------------------------------------------------------------------
\* The relocation engine on objects of every type, observed with the options
\* of the invocation and the prompts it showed

\* The objects a user makes: a small and a big regular file, a socket, a
\* named pipe, a symbolic link
ObjectTypes ==
    {<<"file", 100>>, <<"file", BIG_FILE_THRESHOLD + 1>>, <<"special", 0>>,
     <<"fifo", 0>>, <<"symlink", 10>>}

EngineSource == Loc("src", "x", "a", <<>>)

\* One object of some type is about to be buried; an object of the same path
\* may have been buried before and then lies in the graveyard with its row
InitEngine ==
    /\ \E type \in ObjectTypes, buriedBefore \in BOOLEAN :
          /\ fs = IF buriedBefore
                  THEN Put(Put(<<>>, EngineSource, Object(1, type[2], type[1])),
                           join_absolute(EngineSource), File(0, 100))
                  ELSE Put(<<>>, EngineSource, Object(1, type[2], type[1]))
          /\ gdirs = IF buriedBefore THEN {EngineSource.dir} ELSE {}
          /\ gyard = buriedBefore
          /\ record = IF buriedBefore
                      THEN write_log(RecordNew(NoFile), 0, EngineSource,
                                     join_absolute(EngineSource))
                      ELSE NoFile
          /\ now = IF buriedBefore THEN 1 ELSE 0
    /\ made = 1
    /\ prev = Older(NoOp)
    /\ last = NoOp
    /\ Idle
    /\ NoStamp
    /\ modes = NoModes
    /\ how = NoHow

\* run with one target, lib.rs:121-135
BuryObject(target, opt, ans) ==
    /\ BuryStep(target, opt, ans)
    /\ how' = [force |-> opt.force, inspect |-> opt.inspect,
               allow_rename |-> opt.allow_rename,
               asked |-> run_bury(fs, gdirs, record, now, target, opt, ans).asked,
               big |-> ans.big, special |-> ans.special, copies |-> ans.copies]

\* run with --decompose, lib.rs:34-59: the graveyard and the record are made
\* when missing, then the whole graveyard is unlinked under force or when
\* the prompt is answered yes
Decompose(force, yes) ==
    /\ prev' = Older(last)
    /\ last' = [Before(record) EXCEPT !.op = "decompose", !.res = "Ok",
                                      !.moved = force \/ yes]
    /\ how' = [NoHow EXCEPT !.force = force,
                            !.asked = IF force THEN {} ELSE {"decompose"}]
    /\ IF force \/ yes
       THEN /\ fs' = [l \in DOMAIN fs \ GraveLocs(fs) |-> fs[l]]
            /\ gdirs' = {}
            /\ gyard' = FALSE
            /\ record' = NoFile
       ELSE /\ record' = RecordNew(record)
            /\ gyard' = TRUE
            /\ UNCHANGED <<fs, gdirs>>
    /\ UNCHANGED <<now, made, concVars, tsVars, modes>>

NextEngine ==
    \/ \E target \in DOMAIN fs : \E opt \in BuryOptions(fs, target) :
          \E ans \in BuryAnswers(fs, target, opt) : BuryObject(target, opt, ans)
    \/ \E force \in BOOLEAN : \E yes \in (IF force THEN {FALSE} ELSE BOOLEAN) :
          Decompose(force, yes)

SpecEngine == InitEngine /\ [][NextEngine]_vars

---------------------------------------------------------------------------
\* The provenance log on its own: the operations of a Record handle, called
\* as the library exposes them, and graves that appear and disappear

\* The graves the rows may name and the original they are recorded with
RecDests == {Loc("grave", "x", "a", <<>>), Loc("grave", "x", "a", <<1>>)}
RecSource == Loc("src", "x", "a", <<>>)

\* The state after Record::new(graveyard) in an existing, empty graveyard
InitRecord ==
    /\ fs = <<>>
    /\ gdirs = {}
    /\ gyard = TRUE
    /\ record = RecordNew(NoFile)
    /\ now = 0
    /\ made = 0
    /\ prev = Older(NoOp)
    /\ last = NoOp
    /\ Idle
    /\ NoStamp
    /\ modes = NoModes
    /\ how = NoHow

\* A record file of another format, as the old rip left it: a row, no header
InitForeign ==
    /\ fs = <<>>
    /\ gdirs = {}
    /\ gyard = TRUE
    /\ record = Flatten(<<RowLine(0, RecSource, Loc("grave", "x", "a", <<>>))>>)
    /\ now = 1
    /\ made = 0
    /\ prev = Older(NoOp)
    /\ last = NoOp
    /\ Idle
    /\ NoStamp
    /\ modes = NoModes
    /\ how = NoHow

Done(name, res) ==
    [Before(record) EXCEPT !.op = name, !.res = res, !.rec0 = record]

\* An object is moved to the grave d
GraveAppears(d) ==
    /\ ~symlink_exists(fs, d)
    /\ fs' = Put(fs, d, File(0, 100))
    /\ last' = [Done("appear", "Ok") EXCEPT !.dest = d]
    /\ UNCHANGED <<gdirs, gyard, record, now, made, prev, concVars, tsVars, modes, how>>

\* The grave d is restored or purged
GraveDisappears(d) ==
    /\ symlink_exists(fs, d)
    /\ fs' = Remove(fs, d)
    /\ last' = [Done("disappear", "Ok") EXCEPT !.dest = d]
    /\ UNCHANGED <<gdirs, gyard, record, now, made, prev, concVars, tsVars, modes, how>>

\* record.write_log(source, dest)
WriteLog(source, dest) ==
    /\ now < MaxClock
    /\ record' = write_log(record, now, source, dest)
    /\ now' = now + 1
    /\ last' = [Done("write_log", "Ok") EXCEPT !.target = source, !.dest = dest]
    /\ UNCHANGED <<fs, gdirs, gyard, made, prev, concVars, tsVars, modes, how>>

\* record.get_last_bury()
GetLastBury ==
    /\ \E glb \in {get_last_bury(record, fs)} :
        /\ record' = glb.rec
        /\ last' = [Done("get_last_bury", glb.res) EXCEPT !.dest = glb.dest]
    /\ UNCHANGED <<fs, gdirs, gyard, now, made, prev, concVars, tsVars, modes, how>>

\* record.log_exhumed_graves(graves)
LogExhumedGraves(graves) ==
    /\ \E del \in {log_exhumed_graves(record, graves)} :
        /\ record' = del.rec
        /\ last' = [Done("log_exhumed_graves", del.res) EXCEPT !.graves = graves]
    /\ UNCHANGED <<fs, gdirs, gyard, now, made, prev, concVars, tsVars, modes, how>>

\* record.seance(graveyard + cwd), consumed to its end
SeanceQuery(cwd) ==
    /\ \E sc \in {seance(record, cwd)} :
        last' = [Done("seance", sc.res) EXCEPT
                    !.origs = [i \in 1..Len(sc.rows) |-> AsLoc(RowDest(sc.rows[i]))]]
    /\ UNCHANGED <<fs, gdirs, gyard, record, now, made, prev, concVars, tsVars, modes, how>>

\* record.lines_of_graves(graves), consumed to its end
LinesOfGravesQuery(graves) ==
    /\ AllWellFormed(Rows(record))
    /\ last' = [Done("lines_of_graves", "Ok") EXCEPT !.graves = graves,
                   !.origs = [i \in 1..Len(lines_of_graves(record, graves)) |->
                                 AsLoc(RowDest(lines_of_graves(record, graves)[i]))]]
    /\ UNCHANGED <<fs, gdirs, gyard, record, now, made, prev, concVars, tsVars, modes, how>>

NextRecord ==
    \/ \E d \in RecDests : GraveAppears(d)
    \/ \E d \in RecDests : GraveDisappears(d)
    \/ \E d \in RecDests : WriteLog(RecSource, d)
    \/ GetLastBury
    \/ \E graves \in SUBSET RecDests : LogExhumedGraves(graves)
    \/ \E cwd \in Dirs : SeanceQuery(cwd)
    \/ \E graves \in SUBSET RecDests : LinesOfGravesQuery(graves)

SpecRecord == InitRecord /\ [][NextRecord]_vars

SpecForeign == InitForeign /\ [][NextRecord]_vars

---------------------------------------------------------------------------
\* The time column of a listed row: RecordItem::parse_timestamp and
\* format_time_for_display, which run --seance calls on every listed row
\* (lib.rs:115-117).  The text of the column is a sequence of characters, one
\* of each class the code tells apart, or the single atom write_log produced.

MaxTimeLen == 10

Alnum == Word("alnum")          \* an ASCII letter or digit
Colon == Word("colon")          \* ':'
Space == Word("space")          \* a whitespace character
Dash == Word("dash")            \* ASCII punctuation other than ':', as '-' or '+'
NonAscii == Word("nonascii")    \* a letter outside ASCII
TimeChars == {Alnum, Colon, Space, Dash, NonAscii}

is_ascii_alphanumeric(c) == c = Alnum
is_whitespace(c) == c = Space

\* str::split_whitespace: the non-empty pieces between whitespace
split_whitespace(time) == SelectSeq(SplitOn(time, Space, <<>>), LAMBDA piece : piece # <<>>)

\* record.rs:41-46 with the character test dropped
is_old_format_any_chars(time) == Len(split_whitespace(time)) = 5

\* record.rs:41-46
is_old_format(time) ==
    /\ Len(split_whitespace(time)) = 5
    /\ \A i \in 1..Len(time) :
           is_ascii_alphanumeric(time[i]) \/ is_whitespace(time[i]) \/ time[i] = Colon

\* What DateTime::parse_from_rfc3339 may answer for the text (record.rs:36).
\* The text write_log produced with to_rfc3339 parses; a text without a '-'
\* and a ':' has no RFC3339 date and time; chrono decides the others.
Rfc3339Outcomes(time) ==
    IF time = <<>> THEN {FALSE}
    ELSE IF \E i \in 1..Len(time) : time[i].k = "time" THEN {Len(time) = 1}
    ELSE IF (\E i \in 1..Len(time) : time[i] = Dash) /\ (\E i \in 1..Len(time) : time[i] = Colon)
         THEN BOOLEAN
    ELSE {FALSE}

\* record.rs:34-63 and 66-69; rfc is what parse_from_rfc3339 answered
parse_timestamp(time, rfc) ==
    IF rfc
    THEN [done |-> TRUE, rfc |-> rfc, ok |-> TRUE, kind |-> "none", msg |-> "",
          names |-> <<>>]
    ELSE IF is_old_format(time)
    THEN [done |-> TRUE, rfc |-> rfc, ok |-> FALSE, kind |-> "InvalidData",
          msg |-> "from old rip format: delete the .record file and start over",
          names |-> time]
    ELSE [done |-> TRUE, rfc |-> rfc, ok |-> FALSE, kind |-> "InvalidData",
          msg |-> "Failed to parse time as RFC3339 format", names |-> time]

\* A foreign writer puts one more character in the time column.  A word of
\* the text is one character long.
TypeChar(c) ==
    /\ Len(ts) < MaxTimeLen
    /\ \A i \in 1..Len(ts) : ts[i] \in TimeChars
    /\ IF c = Space \/ ts = <<>> THEN TRUE ELSE ts[Len(ts)] = Space
    /\ ts' = Append(ts, c)
    /\ tsres' = NoListing
    /\ UNCHANGED <<fs, gdirs, gyard, record, now, made, prev, last, concVars, modes, how>>

\* write_log puts Local::now().to_rfc3339() in the time column (record.rs:256)
Stamp(t) ==
    /\ ts' = <<TimeAtom(t)>>
    /\ tsres' = NoListing
    /\ UNCHANGED <<fs, gdirs, gyard, record, now, made, prev, last, concVars, modes, how>>

\* The row is listed: format_time_for_display (record.rs:66-69, lib.rs:116)
ListRow(rfc) ==
    /\ ~tsres.done
    /\ tsres' = parse_timestamp(ts, rfc)
    /\ UNCHANGED <<fs, gdirs, gyard, record, now, made, prev, last, concVars, ts, modes, how>>

NextTs ==
    \/ \E c \in TimeChars : TypeChar(c)
    \/ \E t \in 0..MaxClock : Stamp(t)
    \/ \E rfc \in Rfc3339Outcomes(ts) : ListRow(rfc)

SpecTs == Init /\ [][NextTs]_vars

---------------------------------------------------------------------------
\* Processes sharing the record file.  Each runs a list of Record calls;
\* a step is one system call: a path test, an open, a lock, a read of the
\* file, one write.  The exclusive lock belongs to the open handle and goes
\* away when the handle is dropped.

MaxAppends == 2

\* A process about to run the calls of todo
Running(todo) == [IdleProc EXCEPT !.pc = IF todo = <<>> THEN "done" ELSE "start",
                                  !.todo = todo]

\* The process has ended its current call with result res
EndCall(pr, res) ==
    [pr EXCEPT !.pc = IF Len(pr.todo) > 1 THEN "start" ELSE "done",
               !.todo = Tail(pr.todo),
               !.ran = Append(pr.ran, [call |-> Head(pr.todo), res |-> res]),
               !.mode = "closed", !.off = 0, !.queue = <<>>]

\* Dropping the handle of process p releases the lock it holds
Released(p) == IF lockHolder = p THEN 0 ELSE lockHolder

\* lock_exclusive returns at once whatever another handle holds
CanLock_always(p) == TRUE

\* record.rs:98-100, 116-118, 177-179, 245-247: lock_exclusive returns when
\* no other handle holds the lock
CanLock(p) == lockHolder = 0

\* One write of piece through a handle opened for writing at offset off;
\* every atom takes one position of the file
WriteAt(content, off, piece) ==
    LET padded == IF Len(content) < off
                  THEN content \o [i \in 1..(off - Len(content)) |-> Word("nul")]
                  ELSE content
    IN  SubSeq(padded, 1, off) \o piece \o SubSeq(padded, off + Len(piece) + 1, Len(padded))

\* The writes of writeln!(file, "{}\t{}\t{}", time, source, dest): one per
\* argument and per literal piece (record.rs:253-259)
RowPieces(t, source, dest) ==
    <<<<TimeAtom(t)>>, <<Tab>>, <<PathAtom(source)>>, <<Tab>>, <<PathAtom(dest)>>, <<Nl>>>>

RECURSIVE LinePieces(_)
\* The writes of writeln!(file, "{}", line) for each line (record.rs:180-183)
LinePieces(lines) ==
    IF lines = <<>> THEN <<>> ELSE <<Head(lines), <<Nl>>>> \o LinePieces(Tail(lines))

\* write_log, record.rs:230: already_existed = path.exists()
WlExists(p) ==
    /\ \/ proc[p].pc = "start" /\ Head(proc[p].todo).op = "write_log"
       \/ proc[p].pc = "bu_log"
    /\ proc' = [proc EXCEPT ![p].pc = "wl_open", ![p].existed = (record # NoFile)]
    /\ UNCHANGED <<fs, gdirs, gyard, record, now, made, prev, last, lockHolder, fileLock,
                   tsVars, modes, how>>

\* write_log, record.rs:235-243: open for appending, or create and truncate.
\* The row is formatted with the clock of this run.
WlOpen(p) ==
    /\ proc[p].pc = "wl_open"
    /\ LET call == Head(proc[p].todo)
           row == RowPieces(now, call.source, call.dest)
       IN  IF proc[p].existed
           THEN IF record = NoFile
                THEN /\ proc' = [proc EXCEPT ![p] = EndCall(proc[p], "NotFound")]
                     /\ UNCHANGED record
                ELSE /\ proc' = [proc EXCEPT ![p].pc = "wl_lock", ![p].mode = "append",
                                             ![p].queue = row]
                     /\ UNCHANGED record
           ELSE /\ proc' = [proc EXCEPT ![p].pc = "wl_lock", ![p].mode = "write",
                                        ![p].off = 0,
                                        ![p].queue = <<HeaderLine \o <<Nl>>>> \o row]
                /\ record' = <<>>
    /\ UNCHANGED <<fs, gdirs, gyard, now, made, prev, last, lockHolder, fileLock, tsVars, modes, how>>

\* Record::open, record.rs:114-115: open for reading
DlOpen(p) ==
    /\ \/ proc[p].pc = "start" /\ Head(proc[p].todo).op = "log_exhumed_graves"
       \/ proc[p].pc = "ub_log"
    /\ proc' = IF record = NoFile
               THEN [proc EXCEPT ![p] = EndCall(proc[p], "NotFound")]
               ELSE [proc EXCEPT ![p].pc = "dl_lock", ![p].mode = "read", ![p].off = 0]
    /\ UNCHANGED <<fs, gdirs, gyard, record, now, made, prev, last, lockHolder, fileLock,
                   tsVars, modes, how>>

\* The lock is taken whatever FILE_LOCK says
Locking_always == TRUE

\* if FILE_LOCK: record.rs:98, 116, 177, 245
Locking == fileLock

\* The places where a process calls lock_exclusive on a handle it has just
\* opened: in write_log and Record::new, in Record::open called by
\* log_exhumed_graves, lines_of_graves, seance and get_last_bury, and on the
\* second handle of delete_lines
LockPoints == {"wl_lock", "dl_lock", "dl_lock2", "ub_lock", "se_lock", "gl_lock"}

\* if FILE_LOCK { file.lock_exclusive() }: record.rs:116-118, 177-179, 245-247
Lock(p) ==
    /\ proc[p].pc \in LockPoints
    /\ IF Locking
       THEN CanLock(p) /\ lockHolder' = p
       ELSE UNCHANGED lockHolder
    /\ proc' = [proc EXCEPT ![p].pc = IF proc[p].pc = "dl_lock" THEN "dl_read"
                                     ELSE IF proc[p].pc = "ub_lock" THEN "ub_read"
                                     ELSE IF proc[p].pc = "se_lock" THEN "se_read"
                                     ELSE IF proc[p].pc = "gl_lock" THEN "gl_read"
                                     ELSE "write"]
    /\ UNCHANGED <<fs, gdirs, gyard, record, now, made, prev, last, fileLock, tsVars, modes, how>>

\* DlRead keeping the reader and its locked handle until delete_lines returns
DlRead_keeps_handle(p) ==
    /\ proc[p].pc = "dl_read"
    /\ LET graves == Head(proc[p].todo).graves
           rest == SubSeq(record, proc[p].off + 1, Len(record))
       IN  proc' = IF ~AllWellFormed(Body(Lines(rest)))
                   THEN [proc EXCEPT ![p] = EndCall(proc[p], "panic")]
                   ELSE [proc EXCEPT ![p].pc = "dl_trunc", ![p].mode = "closed",
                            ![p].queue = LinePieces(lines_to_write(record, proc[p].off, graves))]
    /\ UNCHANGED lockHolder
    /\ UNCHANGED <<fs, gdirs, gyard, record, now, made, prev, last, fileLock, tsVars, modes, how>>

\* delete_lines, record.rs:162-170: read the header and the lines to keep;
\* the reader and its handle are dropped when the lines are collected
DlRead(p) ==
    /\ proc[p].pc = "dl_read"
    /\ LET graves == Head(proc[p].todo).graves
           rest == SubSeq(record, proc[p].off + 1, Len(record))
       IN  proc' = IF ~AllWellFormed(Body(Lines(rest)))
                   THEN [proc EXCEPT ![p] = EndCall(proc[p], "panic")]
                   ELSE [proc EXCEPT ![p].pc = "dl_trunc", ![p].mode = "closed",
                            ![p].queue = LinePieces(lines_to_write(record, proc[p].off, graves))]
    /\ lockHolder' = Released(p)
    /\ UNCHANGED <<fs, gdirs, gyard, record, now, made, prev, last, fileLock, tsVars, modes, how>>

\* delete_lines, record.rs:172-176: open with create and truncate
DlTrunc(p) ==
    /\ proc[p].pc = "dl_trunc"
    /\ record' = <<>>
    /\ proc' = [proc EXCEPT ![p].pc = "dl_lock2", ![p].mode = "write", ![p].off = 0]
    /\ UNCHANGED <<fs, gdirs, gyard, now, made, prev, last, lockHolder, fileLock, tsVars, modes, how>>

\* Write through a handle that was opened for writing instead of appending
Write_from_start(p) ==
    /\ proc[p].pc = "write"
    /\ proc[p].queue # <<>>
    /\ LET piece == Head(proc[p].queue)
       IN  /\ record' = WriteAt(record, proc[p].off, piece)
           /\ proc' = [proc EXCEPT ![p].queue = Tail(proc[p].queue),
                                   ![p].off = proc[p].off + Len(piece)]
    /\ UNCHANGED <<fs, gdirs, gyard, now, made, prev, last, lockHolder, fileLock, tsVars, modes, how>>

\* One write of a writeln!: record.rs:180-183, 249-259
Write(p) ==
    /\ proc[p].pc = "write"
    /\ proc[p].queue # <<>>
    /\ LET piece == Head(proc[p].queue)
       IN  /\ record' = IF proc[p].mode = "append" THEN record \o piece
                        ELSE WriteAt(record, proc[p].off, piece)
           /\ proc' = [proc EXCEPT ![p].queue = Tail(proc[p].queue),
                                   ![p].off = IF proc[p].mode = "append" THEN 0
                                              ELSE proc[p].off + Len(piece)]
    /\ UNCHANGED <<fs, gdirs, gyard, now, made, prev, last, lockHolder, fileLock, tsVars, modes, how>>

\* The call returns Ok and its handle is dropped: record.rs:184, 267;
\* get_last_bury returns NotFound after delete_lines when it met no grave
\* that exists (record.rs:148-151)
Close(p) ==
    /\ proc[p].pc = "write"
    /\ proc[p].queue = <<>>
    /\ proc' = [proc EXCEPT ![p] = EndCall(proc[p],
                   IF Head(proc[p].todo).op = "get_last_bury"
                      /\ Head(proc[p].todo).dest = NoLoc
                   THEN "NotFound" ELSE "Ok")]
    /\ lockHolder' = Released(p)
    /\ UNCHANGED <<fs, gdirs, gyard, record, now, made, prev, last, fileLock, tsVars, modes, how>>

NextProc ==
    \E p \in Procs :
        \/ WlExists(p)
        \/ WlOpen(p)
        \/ DlOpen(p)
        \/ Lock(p)
        \/ DlRead(p)
        \/ DlTrunc(p)
        \/ Write(p)
        \/ Close(p)

\* Two appenders on an existing log, as _test_concurrent_writes runs them
\* (tests/integration_tests.rs:1031-1098): process p buries MaxAppends files
AppSource(p, k) == Loc("src", "x", "a", <<p, k>>)
AppDest(p, k) == Loc("grave", "x", "a", <<p, k>>)
AppendCalls(p) ==
    [k \in 1..MaxAppends |->
        [op |-> "write_log", source |-> AppSource(p, k), dest |-> AppDest(p, k), graves |-> {}]]

InitAppend ==
    /\ fs = << >>
    /\ gdirs = {}
    /\ gyard = TRUE
    /\ record = RecordNew(NoFile)
    /\ now = 0
    /\ made = 0
    /\ prev = Older(NoOp)
    /\ last = NoOp
    /\ proc = [p \in Procs |-> Running(AppendCalls(p))]
    /\ lockHolder = 0
    /\ fileLock = TRUE
    /\ NoStamp
    /\ modes = NoModes
    /\ how = NoHow

NextAppend ==
    \E p \in Procs :
        \/ WlExists(p)
        \/ WlOpen(p)
        \/ Lock(p)
        \/ Write(p)
        \/ Close(p)

SpecAppend == InitAppend /\ [][NextAppend]_vars

\* One process appends a row while another deletes rows: the log holds one
\* row per destination of RecDests, the deleter removes the rows of graves
InitRewrite ==
    /\ fs = << >>
    /\ gdirs = {}
    /\ gyard = TRUE
    /\ \E rows \in {<<RowLine(0, RecSource, d)>> : d \in RecDests}
                   \cup {<<RowLine(0, RecSource, d), RowLine(0, RecSource, e)>> :
                            d \in RecDests, e \in RecDests} :
          record = Flatten(<<HeaderLine>> \o rows)
    /\ now = 1
    /\ made = 0
    /\ prev = Older(NoOp)
    /\ last = NoOp
    /\ \E d \in RecDests, graves \in SUBSET RecDests :
          proc = [p \in Procs |->
                    IF p = 1
                    THEN Running(<<[op |-> "write_log", source |-> RecSource, dest |-> d,
                                    graves |-> {}]>>)
                    ELSE Running(<<[op |-> "log_exhumed_graves", source |-> NoLoc,
                                    dest |-> NoLoc, graves |-> graves]>>)]
    /\ lockHolder = 0
    /\ fileLock = TRUE
    /\ NoStamp
    /\ modes = NoModes
    /\ how = NoHow

SpecRewrite == InitRewrite /\ [][NextProc]_vars

\* Two appenders of a Record::<false>, each calling write_log once on an
\* existing log (tests/integration_tests.rs:1031-1098 with FILE_LOCK false)
InitRace ==
    /\ fs = << >>
    /\ gdirs = {}
    /\ gyard = TRUE
    /\ record = RecordNew(NoFile)
    /\ now = 0
    /\ made = 0
    /\ prev = Older(NoOp)
    /\ last = NoOp
    /\ proc = [p \in Procs |-> Running(<<AppendCalls(p)[1]>>)]
    /\ lockHolder = 0
    /\ fileLock = FALSE
    /\ NoStamp
    /\ modes = NoModes
    /\ how = NoHow

SpecRace == InitRace /\ [][NextAppend]_vars

\* Appenders of either kind of record, Record::<true> or Record::<false>
InitAppendAny == InitAppend \/ InitRace

SpecAppendAny == InitAppendAny /\ [][NextAppend]_vars

---------------------------------------------------------------------------
\* Whole runs of the program as processes: a bury is the move of the target
\* followed by write_log, an unbury the loop over lines_of_graves followed by
\* log_exhumed_graves.

\* A run without --force or --inspect whose prompts are all declined
RunOptions == [inspect |-> FALSE, force |-> FALSE, allow_rename |-> TRUE]
RunAnswers == [inspect |-> FALSE, grave |-> FALSE, big |-> FALSE, special |-> FALSE,
               copies |-> FALSE]

\* The process is about to call move_target: in bury_target (lib.rs:211) or
\* in the loop of the unbury branch (lib.rs:92)
AtMove(p) ==
    \/ proc[p].pc = "start" /\ Head(proc[p].todo).op = "bury"
    \/ proc[p].pc = "ub_move" /\ proc[p].queue # <<>>

\* bury_target, lib.rs:141-221: the destination is chosen and the target
\* moved; write_log follows when the move reports true
BuMove(p) ==
    /\ proc[p].pc = "start"
    /\ Head(proc[p].todo).op = "bury"
    /\ LET target == Head(proc[p].todo).source
       IN  IF ~symlink_exists(fs, target)
           THEN /\ proc' = [proc EXCEPT ![p] = EndCall(proc[p], "NotFound")]
                /\ UNCHANGED <<fs, gdirs>>
           ELSE /\ symlink_exists(fs, join_absolute(target))
                      => FreeSuffixes(fs, join_absolute(target)) # {}
                /\ \E dest \in {bury_dest(fs, target)} :
                   \E mv \in {move_target(fs, gdirs, target, dest, RunOptions.allow_rename,
                                          RunOptions.force, RunAnswers)} :
                      /\ fs' = mv.fs
                      /\ gdirs' = mv.gdirs
                      /\ proc' = IF mv.res = "true"
                                 THEN [proc EXCEPT ![p].pc = "bu_log",
                                          ![p].todo = <<[Head(proc[p].todo) EXCEPT
                                                           !.dest = dest]>>
                                                      \o Tail(proc[p].todo)]
                                 ELSE [proc EXCEPT ![p] = EndCall(proc[p],
                                          IF mv.res = "err" THEN "Failed to bury file"
                                          ELSE "Ok")]
    /\ UNCHANGED <<gyard, record, now, made, prev, last, lockHolder, fileLock, tsVars, modes, how>>

\* lines_of_graves, record.rs:204: self.open().unwrap()
UbOpen(p) ==
    /\ proc[p].pc = "start"
    /\ Head(proc[p].todo).op = "unbury"
    /\ proc' = IF record = NoFile
               THEN [proc EXCEPT ![p] = EndCall(proc[p], "panic")]
               ELSE [proc EXCEPT ![p].pc = "ub_lock", ![p].mode = "read", ![p].off = 0]
    /\ UNCHANGED <<fs, gdirs, gyard, record, now, made, prev, last, lockHolder, fileLock,
                   tsVars, modes, how>>

\* lines_of_graves, record.rs:205-209: the buffered reader reads the file;
\* the iterator it returns owns the reader and its handle
UbNext(p) ==
    /\ proc[p].pc = "ub_read"
    /\ proc' = [proc EXCEPT ![p].pc = "ub_move",
                            ![p].queue = lines_of_graves(record, Head(proc[p].todo).graves)]
    /\ UNCHANGED <<fs, gdirs, gyard, record, now, made, prev, last, lockHolder, fileLock,
                   tsVars, modes, how>>

\* One turn of the loop, lib.rs:85-110: the grave of the next line is moved
\* back; an error ends the run and drops the iterator
UbMove(p) ==
    /\ proc[p].pc = "ub_move"
    /\ proc[p].queue # <<>>
    /\ \E x \in {ExhumeAll(<<Head(proc[p].queue)>>, fs, gdirs, RunOptions, RunAnswers)} :
          /\ x.res # "bound"
          /\ fs' = x.fs
          /\ gdirs' = x.gdirs
          /\ IF x.res = "Ok"
             THEN /\ proc' = [proc EXCEPT ![p].queue = Tail(proc[p].queue)]
                  /\ UNCHANGED lockHolder
             ELSE /\ proc' = [proc EXCEPT ![p] = EndCall(proc[p], x.res)]
                  /\ lockHolder' = Released(p)
    /\ UNCHANGED <<gyard, record, now, made, prev, last, fileLock, tsVars, modes, how>>

\* The loop ends and the iterator is dropped with its handle; then
\* log_exhumed_graves, lib.rs:111
UbEnd(p) ==
    /\ proc[p].pc = "ub_move"
    /\ proc[p].queue = <<>>
    /\ proc' = [proc EXCEPT ![p].pc = "ub_log", ![p].mode = "closed"]
    /\ lockHolder' = Released(p)
    /\ UNCHANGED <<fs, gdirs, gyard, record, now, made, prev, last, fileLock, tsVars, modes, how>>

\* A file and the grave of an earlier file of the same path; one process
\* buries the file while the other unburies the grave
InitRun ==
    /\ fs = Put(Put(<<>>, EngineSource, File(1, 100)),
                join_absolute(EngineSource), File(0, 100))
    /\ gdirs = {EngineSource.dir}
    /\ gyard = TRUE
    /\ record = write_log(RecordNew(NoFile), 0, EngineSource, join_absolute(EngineSource))
    /\ now = 1
    /\ made = 1
    /\ prev = Older(NoOp)
    /\ last = NoOp
    /\ proc = [p \in Procs |->
                 IF p = 1
                 THEN Running(<<[op |-> "bury", source |-> EngineSource, dest |-> NoLoc,
                                 graves |-> {}]>>)
                 ELSE Running(<<[op |-> "unbury", source |-> NoLoc, dest |-> NoLoc,
                                 graves |-> {join_absolute(EngineSource)}]>>)]
    /\ lockHolder = 0
    /\ fileLock = TRUE
    /\ NoStamp
    /\ modes = NoModes
    /\ how = NoHow

NextRun ==
    \E p \in Procs :
        \/ BuMove(p)
        \/ WlExists(p)
        \/ WlOpen(p)
        \/ UbOpen(p)
        \/ Lock(p)
        \/ UbNext(p)
        \/ UbMove(p)
        \/ UbEnd(p)
        \/ DlOpen(p)
        \/ DlRead(p)
        \/ DlTrunc(p)
        \/ Write(p)
        \/ Close(p)

SpecRun == InitRun /\ [][NextRun]_vars

---------------------------------------------------------------------------
\* Whole invocations of run: the command line with its list of targets, the
\* answers the user gives to each kind of prompt, the umask and the current
\* directory of the process

MaxTargets == 3

\* The permission bits create_dir_all asks for (0o777) and the bits run means
\* the graveyard root to have (0o700, lib.rs:44)
AllPerms == 511
OwnerOnly == 448

\* The umasks of the process: 0o022 and 0o077
Umasks == {18, 63}

\* fs::create_dir_all(graveyard), lib.rs:38-39: the new directory gets the
\* bits the umask leaves.  lib.rs:41-45 sets 0o700 in a copy of the
\* permissions it read and never writes the copy back.
graveyard_mode(umask) == AllPerms - umask

RECURSIVE bury_all(_, _, _, _)

\* What is kept of one pass of the loop over cli.targets: the target, what
\* lay there before, and what bury_target (b) made of it
StepOf(st, target, b) ==
    [target |-> target, existed |-> Exists(st, target),
     file |-> IF symlink_exists(st.fs, target) THEN st.fs[target] ELSE File(0, 0),
     res |-> b.res, dest |-> b.dest, moved |-> b.moved,
     asked |-> b.asked, n0 |-> Len(Rows(st.record)),
     fs1 |-> b.st.fs, rec1 |-> b.st.record]

\* The passes of a run: one pass followed by the later ones
Prepend(step, rest) == [rest EXCEPT !.steps = <<step>> \o rest.steps]

\* bury_next returning from run when the user declines to unlink a target
\* that lies in the graveyard
bury_next_returns_on_skip(st, targets, opt, ans, b) ==
    IF b.res # "Ok" \/ ("grave" \in b.asked /\ ~ans.grave)
    THEN [st |-> b.st, res |-> b.res, steps |-> <<StepOf(st, Head(targets), b)>>]
    ELSE Prepend(StepOf(st, Head(targets), b), bury_all(b.st, Tail(targets), opt, ans))

\* The end of one pass, lib.rs:124-134: the `?` on bury_target(..) returns
\* the first error from run; otherwise the loop goes on with the next target
bury_next(st, targets, opt, ans, b) ==
    IF b.res # "Ok"
    THEN [st |-> b.st, res |-> b.res, steps |-> <<StepOf(st, Head(targets), b)>>]
    ELSE Prepend(StepOf(st, Head(targets), b), bury_all(b.st, Tail(targets), opt, ans))

\* The loop over cli.targets, lib.rs:123-135: the targets are buried in
\* order and the first error ends the run.  A step keeps what was observed
\* of one target; res "bound" marks a run that needs a suffix above MaxSuffix.
bury_all(st, targets, opt, ans) ==
    IF targets = <<>> THEN [st |-> st, res |-> "Ok", steps |-> <<>>]
    ELSE IF /\ Head(targets).area = "src" /\ symlink_exists(st.fs, Head(targets))
            /\ symlink_exists(st.fs, join_absolute(Head(targets)))
            /\ FreeSuffixes(st.fs, join_absolute(Head(targets))) = {}
    THEN [st |-> st, res |-> "bound", steps |-> <<>>]
    ELSE bury_next(st, targets, opt, ans, bury_target(st, Head(targets), opt, ans))

\* What run returns after its unbury branch (u), lib.rs:77-117
ran_unbury(same, u) ==
    [same EXCEPT !.fs = u.fs, !.gdirs = u.gdirs, !.record = u.record,
                 !.res = u.res, !.asked = u.asked]

\* What run returns after the loop over its targets (b), lib.rs:123-137
ran_bury(same, b) ==
    [same EXCEPT !.fs = b.st.fs, !.gdirs = b.st.gdirs,
                 !.record = b.st.record, !.now = b.st.now,
                 !.res = b.res, !.steps = b.steps,
                 !.asked = UNION {b.steps[i].asked : i \in 1..Len(b.steps)}]

\* run unlinking the graveyard whatever the answer to its prompt
run_unlinks_unasked(cli, ans, env, s) ==
    LET opt == [inspect |-> cli.inspect, force |-> cli.force,
                allow_rename |-> env.allow_rename]
        gmode == IF s.gyard THEN 0 ELSE graveyard_mode(env.umask)
        rec1 == RecordNew(s.record)
        same == [fs |-> s.fs, gdirs |-> s.gdirs, gyard |-> TRUE, record |-> rec1,
                 now |-> s.now, res |-> "Ok", steps |-> <<>>, asked |-> {},
                 gmode |-> gmode]
    IN  IF validate_args(cli) # "Ok"
        THEN [fs |-> s.fs, gdirs |-> s.gdirs, gyard |-> s.gyard, record |-> s.record,
              now |-> s.now, res |-> validate_args(cli), steps |-> <<>>, asked |-> {},
              gmode |-> 0]
        ELSE IF cli.decompose
        THEN IF cli.force \/ ans.decompose \/ ~ans.decompose
             THEN [same EXCEPT !.fs = [l \in DOMAIN s.fs \ GraveLocs(s.fs) |-> s.fs[l]],
                               !.gdirs = {}, !.gyard = FALSE, !.record = NoFile,
                               !.asked = IF cli.force THEN {} ELSE {"decompose"}]
             ELSE [same EXCEPT !.asked = {"decompose"}]
        ELSE IF cli.unbury
        THEN ran_unbury(same, unbury(rec1, s.fs, s.gdirs, {}, cli.seance, env.cwd,
                                     opt, ans))
        ELSE IF cli.seance
        THEN same
        ELSE IF cli.targets = <<>>
        THEN same
        ELSE ran_bury(same, bury_all([fs |-> s.fs, gdirs |-> s.gdirs, record |-> rec1,
                                      now |-> s.now], cli.targets, opt, ans))

\* run (lib.rs:34-139) on the system s = [fs, gdirs, gyard, record, now].
\* gmode is the mode of the graveyard root when this run created it, 0
\* otherwise.
run(cli, ans, env, s) ==
    LET opt == [inspect |-> cli.inspect, force |-> cli.force,
                allow_rename |-> env.allow_rename]
        gmode == IF s.gyard THEN 0 ELSE graveyard_mode(env.umask)
        rec1 == RecordNew(s.record)
        same == [fs |-> s.fs, gdirs |-> s.gdirs, gyard |-> TRUE, record |-> rec1,
                 now |-> s.now, res |-> "Ok", steps |-> <<>>, asked |-> {},
                 gmode |-> gmode]
    IN  IF validate_args(cli) # "Ok"
        THEN [fs |-> s.fs, gdirs |-> s.gdirs, gyard |-> s.gyard, record |-> s.record,
              now |-> s.now, res |-> validate_args(cli), steps |-> <<>>, asked |-> {},
              gmode |-> 0]
        ELSE IF cli.decompose
        THEN IF cli.force \/ ans.decompose
             THEN [same EXCEPT !.fs = [l \in DOMAIN s.fs \ GraveLocs(s.fs) |-> s.fs[l]],
                               !.gdirs = {}, !.gyard = FALSE, !.record = NoFile,
                               !.asked = IF cli.force THEN {} ELSE {"decompose"}]
             ELSE [same EXCEPT !.asked = {"decompose"}]
        ELSE IF cli.unbury
        THEN ran_unbury(same, unbury(rec1, s.fs, s.gdirs, {}, cli.seance, env.cwd,
                                     opt, ans))
        ELSE IF cli.seance
        THEN same
        ELSE IF cli.targets = <<>>
        THEN same
        ELSE ran_bury(same, bury_all([fs |-> s.fs, gdirs |-> s.gdirs, record |-> rec1,
                                      now |-> s.now], cli.targets, opt, ans))

\* The paths a command line may name
TargetLocs == SrcLocs \cup {join_absolute(EngineSource), RecordLoc}

RECURSIVE ListsUpTo(_, _)
ListsUpTo(S, n) ==
    IF n = 0 THEN {<<>>}
    ELSE LET shorter == ListsUpTo(S, n - 1)
         IN  shorter \cup {Append(l, x) : l \in {m \in shorter : Len(m) = n - 1}, x \in S}

\* The command lines tried: every list of targets for a bury, one list for
\* the other modes, which do not read the targets
CliInputs ==
    [targets : ListsUpTo(TargetLocs, MaxTargets), decompose : {FALSE}, seance : {FALSE},
     unbury : {FALSE}, inspect : BOOLEAN, force : BOOLEAN]
    \cup [targets : {<<EngineSource>>}, decompose : BOOLEAN, seance : BOOLEAN,
          unbury : BOOLEAN, inspect : BOOLEAN, force : BOOLEAN]

\* The answers to the prompts the run can show; the prompts it cannot show
\* are answered FALSE
CliAnswers(cli) ==
    [inspect : IF cli.inspect THEN BOOLEAN ELSE {FALSE},
     grave : IF ~cli.force /\ ~cli.decompose /\ ~cli.unbury /\ ~cli.seance
             THEN BOOLEAN ELSE {FALSE},
     decompose : IF cli.decompose /\ ~cli.force THEN BOOLEAN ELSE {FALSE},
     big : {FALSE}, special : {FALSE}, copies : {FALSE}]

\* The umask matters when the run makes the graveyard, allow_rename when it
\* buries or unburies
Envs(cli, hasGraveyard) ==
    [umask : IF hasGraveyard THEN {18} ELSE Umasks, cwd : Dirs,
     allow_rename : IF cli.decompose \/ (cli.seance /\ ~cli.unbury) THEN {TRUE}
                    ELSE BOOLEAN]

\* What lies in the graveyard before the run: nothing (there is no graveyard
\* yet), the grave of an earlier file of the first path with its row, or
\* that row alone, the grave having been removed
GraveStates == {"none", "live", "stale"}

\* One process is about to run one command line.  The user has a file at
\* the second path and may have one at the first.
InitCli ==
    /\ \E first \in BOOLEAN, grave \in GraveStates :
          /\ fs = [l \in (IF first THEN {EngineSource} ELSE {})
                         \cup {WithSuffix(EngineSource, 1)}
                         \cup (IF grave = "live" THEN {join_absolute(EngineSource)} ELSE {})
                     |-> IF l = EngineSource THEN File(1, 100)
                         ELSE IF l = WithSuffix(EngineSource, 1) THEN File(2, 100)
                         ELSE File(0, 100)]
          /\ gdirs = IF grave = "none" THEN {} ELSE {EngineSource.dir}
          /\ gyard = (grave # "none")
          /\ record = IF grave = "none" THEN NoFile
                      ELSE write_log(RecordNew(NoFile), 0, EngineSource,
                                     join_absolute(EngineSource))
          /\ now = IF grave = "none" THEN 0 ELSE 1
          /\ \E cli \in CliInputs : \E ans \in CliAnswers(cli) :
             \E env \in Envs(cli, grave # "none") :
                proc = [p \in Procs |->
                          IF p = 1
                          THEN Running(<<[op |-> "run", cli |-> cli, ans |-> ans,
                                          env |-> env]>>)
                          ELSE IdleProc]
    /\ lockHolder = 0
    /\ fileLock = TRUE
    /\ made = 2
    /\ prev = Older(NoOp)
    /\ last = NoOp
    /\ NoStamp
    /\ modes = NoModes
    /\ how = NoHow

\* The invocation of process p runs to its end; it is observed with the
\* state it started from and what it did to each target
RunCli(p) ==
    /\ proc[p].pc = "start"
    /\ Head(proc[p].todo).op = "run"
    /\ LET call == Head(proc[p].todo)
       IN  \E r \in {run(call.cli, call.ans, call.env,
                         [fs |-> fs, gdirs |-> gdirs, gyard |-> gyard,
                          record |-> record, now |-> now])} :
              /\ r.res # "bound"
              /\ r.now <= MaxClock
              /\ fs' = r.fs
              /\ gdirs' = r.gdirs
              /\ gyard' = r.gyard
              /\ record' = r.record
              /\ now' = r.now
              /\ proc' = [proc EXCEPT ![p] = EndCall(proc[p], r.res)]
              /\ prev' = Older(last)
              /\ last' = [Before(record) EXCEPT !.op = "run", !.res = r.res,
                                                !.rec0 = record]
              /\ how' = [cli |-> call.cli, ans |-> call.ans, env |-> call.env,
                         steps |-> r.steps, asked |-> r.asked, gmode |-> r.gmode,
                         fs0 |-> fs, gdirs0 |-> gdirs, gyard0 |-> gyard]
    /\ UNCHANGED <<made, lockHolder, fileLock, tsVars, modes>>

NextCli == \E p \in Procs : RunCli(p)

SpecCli == InitCli /\ [][NextCli]_vars

---------------------------------------------------------------------------
\* Burials that copy, with a failure of the operating system at one step.
\* The target is a single object or a directory of the user holding files;
\* rename is not available (lib.rs:364: allow_rename is false or fs::rename
\* fails), so move_target copies and removes.

\* The files a directory of the user may hold, in the order they are walked
TreeFiles == <<EngineSource, WithSuffix(EngineSource, 1)>>

\* The directory of the user as a path, and its mirrored directory
DirLoc(area, dir) == Loc(area, dir, "", <<>>)

\* The files of directory dir in the filesystem f, in walking order
DirFiles(f, dir) ==
    SelectSeq(TreeFiles, LAMBDA l : l.dir = dir /\ symlink_exists(f, l))

\* What a copy that stopped midway left at its destination
Partial(file) == [file EXCEPT !.data = 0 - file.data]

\* The step that fails: none; create_dirs_with_permissions (lib.rs:369);
\* in move_dir create_dir_all (lib.rs:412) or set_permissions (lib.rs:430);
\* the copy of the k-th file (lib.rs:374, 439), which may leave a partial
\* file; the removal of the k-th original (lib.rs:384, 451)
Faults ==
    [at : {"none", "create_dirs", "mkdir", "perms"}, k : {0}, partial : {FALSE}]
    \cup [at : {"copy"}, k : 1..Len(TreeFiles), partial : BOOLEAN]
    \cup [at : {"remove"}, k : 1..Len(TreeFiles), partial : {FALSE}]

RECURSIVE CopyAll(_, _, _, _, _)
\* move_dir, lib.rs:403-449: the files from the k-th on are copied below the
\* mirrored directory until copy_file returns an error or the copy of file
\* number fault.k fails.  A file for which copy_file returns false is not
\* copied.
CopyAll(f, files, k, fault, opt) ==
    IF k > Len(files) THEN [fs |-> f, res |-> "true"]
    ELSE LET cp == copy_file(f[files[k]], opt.force, opt.ans)
         IN  IF cp.res = "err" THEN [fs |-> f, res |-> "err"]
             ELSE IF cp.res = "true" /\ fault.at = "copy" /\ fault.k = k
             THEN [fs |-> IF fault.partial
                          THEN Put(f, join_absolute(files[k]), Partial(f[files[k]]))
                          ELSE f,
                   res |-> "err"]
             ELSE CopyAll(IF cp.res = "true"
                          THEN Put(f, join_absolute(files[k]), f[files[k]]) ELSE f,
                          files, k + 1, fault, opt)

RECURSIVE RemoveAll(_, _, _, _)
\* fs::remove_dir_all: the files are unlinked one after the other; stop is
\* the number of the file whose unlinking fails, 0 when none does
RemoveAll(f, files, k, stop) ==
    IF k > Len(files) THEN [fs |-> f, res |-> "Ok"]
    ELSE IF k = stop THEN [fs |-> f, res |-> "err"]
    ELSE RemoveAll(Remove(f, files[k]), files, k + 1, stop)

\* move_dir returning false when copy_file returned false for one of the files
move_dir_reports_declined(f, gd, dir, fault, opt) ==
    IF fault.at = "mkdir" THEN [fs |-> f, gdirs |-> gd, res |-> "err"]
    ELSE IF fault.at = "perms" THEN [fs |-> f, gdirs |-> gd \cup {dir}, res |-> "err"]
    ELSE LET files == DirFiles(f, dir)
             cp == CopyAll(f, files, 1, fault, opt)
             rm == RemoveAll(cp.fs, files, 1, IF fault.at = "remove" THEN fault.k ELSE 0)
         IN  IF cp.res = "err"
             THEN [fs |-> cp.fs, gdirs |-> gd \cup {dir}, res |-> "err"]
             ELSE [fs |-> rm.fs, gdirs |-> gd \cup {dir},
                   res |-> IF rm.res # "Ok" THEN "err"
                           ELSE IF \E k \in 1..Len(files) :
                                      copy_file(f[files[k]], opt.force, opt.ans).res = "false"
                           THEN "false" ELSE "true"]

\* move_dir (lib.rs:396-459) on the directory dir of the user
move_dir(f, gd, dir, fault, opt) ==
    IF fault.at = "mkdir" THEN [fs |-> f, gdirs |-> gd, res |-> "err"]
    ELSE IF fault.at = "perms" THEN [fs |-> f, gdirs |-> gd \cup {dir}, res |-> "err"]
    ELSE LET files == DirFiles(f, dir)
             cp == CopyAll(f, files, 1, fault, opt)
             rm == RemoveAll(cp.fs, files, 1, IF fault.at = "remove" THEN fault.k ELSE 0)
         IN  IF cp.res = "err"
             THEN [fs |-> cp.fs, gdirs |-> gd \cup {dir}, res |-> "err"]
             ELSE [fs |-> rm.fs, gdirs |-> gd \cup {dir},
                   res |-> IF rm.res = "Ok" THEN "true" ELSE "err"]

\* The copying part of move_target (lib.rs:368-391) on a target that is a
\* directory (area, dir, no name) or a single object
move_target_copying(f, gd, target, dest, fault, opt) ==
    IF fault.at = "create_dirs" THEN [fs |-> f, gdirs |-> gd, res |-> "err"]
    ELSE IF target.base = ""
    THEN move_dir(f, gd, target.dir, fault, opt)
    ELSE LET gd1 == create_dirs_with_permissions(gd, dest)
             cp == copy_file(f[target], opt.force, opt.ans)
         IN  IF cp.res = "err" THEN [fs |-> f, gdirs |-> gd1, res |-> "err"]
             ELSE IF cp.res = "true" /\ fault.at = "copy"
             THEN [fs |-> IF fault.partial THEN Put(f, dest, Partial(f[target])) ELSE f,
                   gdirs |-> gd1, res |-> "err"]
             ELSE LET copied == IF cp.res = "true" THEN Put(f, dest, f[target]) ELSE f
                  IN  IF fault.at = "remove"
                      THEN [fs |-> copied, gdirs |-> gd1, res |-> "err"]
                      ELSE [fs |-> Remove(copied, target), gdirs |-> gd1, res |-> cp.res]

\* fs::remove_dir_all(dest).ok(), lib.rs:212: a destination that is a
\* directory loses its files, all of them or those before the one whose
\* unlinking fails, and is removed when empty; on a destination that is not
\* a directory remove_dir_all fails and nothing is removed.  The error is
\* dropped either way.
cleanup(f, gd, dest, stop) ==
    IF dest.base # ""
    THEN [fs |-> f, gdirs |-> gd]
    ELSE LET under == SelectSeq([i \in 1..Len(TreeFiles) |-> join_absolute(TreeFiles[i])],
                                LAMBDA l : l.dir = dest.dir /\ symlink_exists(f, l))
             rm == RemoveAll(f, under, 1, stop)
         IN  [fs |-> rm.fs, gdirs |-> IF rm.res = "Ok" THEN gd \ {dest.dir} ELSE gd]

\* bury_target (lib.rs:200-220) where the move has to copy: the destination
\* is the mirrored path, free in these runs; on an error of the move the
\* destination is cleaned up and no row is written
bury_copying(st, target, fault, stop, opt) ==
    LET dest == join_absolute(target)
        mv == move_target_copying(st.fs, st.gdirs, target, dest, fault, opt)
        cl == cleanup(mv.fs, mv.gdirs, dest, stop)
    IN  IF mv.res = "err"
        THEN [fs |-> cl.fs, gdirs |-> cl.gdirs, record |-> st.record, now |-> st.now,
              res |-> "Failed to bury file", dest |-> dest, moved |-> FALSE]
        ELSE IF mv.res = "true"
        THEN [fs |-> mv.fs, gdirs |-> mv.gdirs,
              record |-> write_log(st.record, st.now, target, dest), now |-> st.now + 1,
              res |-> "Ok", dest |-> dest, moved |-> TRUE]
        ELSE [fs |-> mv.fs, gdirs |-> mv.gdirs, record |-> st.record, now |-> st.now,
              res |-> "Ok", dest |-> dest, moved |-> FALSE]

\* The targets: a single object of any type, or the directory with one or
\* two regular files, the first of them small or big
FaultTargets ==
    [kind : {"object"}, type : ObjectTypes, files : {1}]
    \cup [kind : {"dir"}, type : {t \in ObjectTypes : t[1] = "file"},
          files : 1..Len(TreeFiles)]

\* An existing, empty graveyard; one process is about to bury the target
\* with the failure fault, the cleanup stopping at file number stop
InitFault ==
    /\ \E tg \in FaultTargets, fault \in Faults, stop \in 0..Len(TreeFiles),
          force \in BOOLEAN, big \in BOOLEAN, special \in BOOLEAN, copies \in BOOLEAN :
          /\ tg.kind = "object" => stop = 0 /\ fault.at \notin {"mkdir", "perms"}
                                            /\ fault.k <= 1
          /\ tg.kind = "dir" => fault.k <= tg.files /\ stop <= tg.files
          /\ tg.type[1] # "special" => ~special /\ ~copies
          /\ tg.type[2] <= BIG_FILE_THRESHOLD => ~big
          /\ force => ~big /\ ~special
          /\ fs = [l \in {TreeFiles[i] : i \in 1..tg.files} |->
                      IF l = EngineSource THEN Object(1, tg.type[2], tg.type[1])
                      ELSE File(2, 100)]
          /\ proc = [p \in Procs |->
                       IF p = 1
                       THEN Running(<<[op |-> "bury_copying",
                                       target |-> IF tg.kind = "dir"
                                                  THEN DirLoc("src", EngineSource.dir)
                                                  ELSE EngineSource,
                                       fault |-> fault, stop |-> stop,
                                       opt |-> [force |-> force,
                                                ans |-> [big |-> big, special |-> special,
                                                         copies |-> copies]]]>>)
                       ELSE IdleProc]
    /\ gdirs = {}
    /\ gyard = TRUE
    /\ record = RecordNew(NoFile)
    /\ now = 0
    /\ made = 2
    /\ prev = Older(NoOp)
    /\ last = NoOp
    /\ lockHolder = 0
    /\ fileLock = TRUE
    /\ NoStamp
    /\ modes = NoModes
    /\ how = NoHow

\* The burial of process p runs to its end
BuryCopying(p) ==
    /\ proc[p].pc = "start"
    /\ Head(proc[p].todo).op = "bury_copying"
    /\ LET call == Head(proc[p].todo)
       IN  \E b \in {bury_copying([fs |-> fs, gdirs |-> gdirs, record |-> record,
                                   now |-> now], call.target, call.fault, call.stop,
                                  call.opt)} :
              /\ fs' = b.fs
              /\ gdirs' = b.gdirs
              /\ record' = b.record
              /\ now' = b.now
              /\ proc' = [proc EXCEPT ![p] = EndCall(proc[p], b.res)]
              /\ prev' = Older(last)
              /\ last' = [Before(record) EXCEPT !.op = "bury_copying",
                             !.target = call.target, !.dest = b.dest, !.moved = b.moved,
                             !.res = b.res, !.rec0 = record]
              /\ how' = [fault |-> call.fault, stop |-> call.stop, opt |-> call.opt,
                         fs0 |-> fs]
    /\ UNCHANGED <<gyard, made, lockHolder, fileLock, tsVars, modes>>

NextFault == \E p \in Procs : BuryCopying(p)

SpecFault == InitFault /\ [][NextFault]_vars

---------------------------------------------------------------------------
\* Burials by several processes: a burial is the choice of the destination,
\* the move of the target, and write_log, each one step

\* bury_target, lib.rs:153-209: the target is looked up and its destination
\* chosen from what the graveyard holds at this moment
BuDest(p) ==
    /\ proc[p].pc = "start"
    /\ Head(proc[p].todo).op = "bury"
    /\ LET target == Head(proc[p].todo).source
       IN  IF ~symlink_exists(fs, target)
           THEN proc' = [proc EXCEPT ![p] = EndCall(proc[p], "NotFound")]
           ELSE /\ symlink_exists(fs, join_absolute(target))
                      => FreeSuffixes(fs, join_absolute(target)) # {}
                /\ proc' = [proc EXCEPT ![p].pc = "bu_move",
                              ![p].todo = <<[Head(proc[p].todo) EXCEPT
                                               !.dest = bury_dest(fs, target)]>>
                                          \o Tail(proc[p].todo)]
    /\ UNCHANGED <<fs, gdirs, gyard, record, now, made, prev, last, lockHolder, fileLock,
                   tsVars, modes, how>>

\* bury_target, lib.rs:211-219: move_target to the destination chosen
\* before; fs::rename (lib.rs:362-366) replaces what lies at the destination
BuRename(p) ==
    /\ proc[p].pc = "bu_move"
    /\ LET call == Head(proc[p].todo)
       IN  \E mv \in {move_target(fs, gdirs, call.source, call.dest,
                                  RunOptions.allow_rename, RunOptions.force, RunAnswers)} :
              /\ fs' = mv.fs
              /\ gdirs' = mv.gdirs
              /\ proc' = IF mv.res = "true"
                         THEN [proc EXCEPT ![p].pc = "bu_log"]
                         ELSE [proc EXCEPT ![p] = EndCall(proc[p],
                                  IF mv.res = "err" THEN "Failed to bury file"
                                  ELSE "Ok")]
    /\ UNCHANGED <<gyard, record, now, made, prev, last, lockHolder, fileLock, tsVars, modes, how>>

\* The user has files at the first two paths, and the grave of an earlier
\* file of the first path may exist; each process buries one of the files
InitBuriers ==
    /\ \E grave \in BOOLEAN :
          /\ fs = [l \in {EngineSource, WithSuffix(EngineSource, 1)}
                         \cup (IF grave THEN {join_absolute(EngineSource)} ELSE {})
                     |-> IF l = EngineSource THEN File(1, 100)
                         ELSE IF l = WithSuffix(EngineSource, 1) THEN File(2, 100)
                         ELSE File(0, 100)]
          /\ record = IF grave
                      THEN write_log(RecordNew(NoFile), 0, EngineSource,
                                     join_absolute(EngineSource))
                      ELSE RecordNew(NoFile)
    /\ gdirs = {EngineSource.dir}
    /\ gyard = TRUE
    /\ now = 1
    /\ made = 2
    /\ prev = Older(NoOp)
    /\ last = NoOp
    /\ \E t \in [Procs -> {EngineSource, WithSuffix(EngineSource, 1)}] :
          proc = [p \in Procs |->
                    Running(<<[op |-> "bury", source |-> t[p], dest |-> NoLoc,
                               graves |-> {}]>>)]
    /\ lockHolder = 0
    /\ fileLock = TRUE
    /\ NoStamp
    /\ modes = NoModes
    /\ how = [fs0 |-> fs]

NextBuriers ==
    \E p \in Procs :
        \/ BuDest(p)
        \/ BuRename(p)
        \/ WlExists(p)
        \/ WlOpen(p)
        \/ Lock(p)
        \/ Write(p)
        \/ Close(p)

SpecBuriers == InitBuriers /\ [][NextBuriers]_vars

---------------------------------------------------------------------------
\* Processes that start without a record file: each runs Record::new and
\* then one write_log

\* Record::new, record.rs:95: if !path.exists()
RnExists(p) ==
    /\ proc[p].pc = "start"
    /\ Head(proc[p].todo).op = "new"
    /\ proc' = IF record # NoFile
               THEN [proc EXCEPT ![p] = EndCall(proc[p], "Ok")]
               ELSE [proc EXCEPT ![p].pc = "rn_open"]
    /\ UNCHANGED <<fs, gdirs, gyard, record, now, made, prev, last, lockHolder, fileLock,
                   tsVars, modes, how>>

\* Record::new, record.rs:97-102: open with truncate and create; the lock
\* and the write of the header follow, and the handle is dropped at the end
\* of the block
RnOpen(p) ==
    /\ proc[p].pc = "rn_open"
    /\ record' = <<>>
    /\ proc' = [proc EXCEPT ![p].pc = "wl_lock", ![p].mode = "write", ![p].off = 0,
                            ![p].queue = <<HeaderLine \o <<Nl>>>>]
    /\ UNCHANGED <<fs, gdirs, gyard, now, made, prev, last, lockHolder, fileLock, tsVars, modes, how>>

\* The calls of one run on a graveyard that may be new
CreateCalls(p) ==
    <<[op |-> "new", source |-> NoLoc, dest |-> NoLoc, graves |-> {}],
      AppendCalls(p)[1]>>

\* No record file exists and locking is enabled
InitCreate ==
    /\ fs = << >>
    /\ gdirs = {}
    /\ gyard = TRUE
    /\ record = NoFile
    /\ now = 0
    /\ made = 0
    /\ prev = Older(NoOp)
    /\ last = NoOp
    /\ proc = [p \in Procs |-> Running(CreateCalls(p))]
    /\ lockHolder = 0
    /\ fileLock = TRUE
    /\ NoStamp
    /\ modes = NoModes
    /\ how = NoHow

NextCreate ==
    \E p \in Procs :
        \/ RnExists(p)
        \/ RnOpen(p)
        \/ WlExists(p)
        \/ WlOpen(p)
        \/ Lock(p)
        \/ Write(p)
        \/ Close(p)

SpecCreate == InitCreate /\ [][NextCreate]_vars

---------------------------------------------------------------------------
\* Processes that bury, unbury, list and ask for the last burial, scheduled
\* fairly: a process that can take a step is not held back forever

\* Record::seance, record.rs:217: self.open()
SeOpen(p) ==
    /\ proc[p].pc = "start"
    /\ Head(proc[p].todo).op = "seance"
    /\ proc' = IF record = NoFile
               THEN [proc EXCEPT ![p] = EndCall(proc[p], "NotFound")]
               ELSE [proc EXCEPT ![p].pc = "se_lock", ![p].mode = "read", ![p].off = 0]
    /\ UNCHANGED <<fs, gdirs, gyard, record, now, made, prev, last, lockHolder, fileLock,
                   tsVars, modes, how>>

\* The loop of run over the iterator seance returned, lib.rs:112-117: the
\* rows are read and printed; the iterator and its handle are dropped when
\* the loop ends
SeRead(p) ==
    /\ proc[p].pc = "se_read"
    /\ proc' = [proc EXCEPT ![p] = EndCall(proc[p],
                   seance(record, Head(proc[p].todo).source.dir).res)]
    /\ lockHolder' = Released(p)
    /\ UNCHANGED <<fs, gdirs, gyard, record, now, made, prev, last, fileLock, tsVars, modes, how>>

\* Record::get_last_bury, record.rs:127: self.open()
GlOpen(p) ==
    /\ proc[p].pc = "start"
    /\ Head(proc[p].todo).op = "get_last_bury"
    /\ proc' = IF record = NoFile
               THEN [proc EXCEPT ![p] = EndCall(proc[p], "NotFound")]
               ELSE [proc EXCEPT ![p].pc = "gl_lock", ![p].mode = "read", ![p].off = 0]
    /\ UNCHANGED <<fs, gdirs, gyard, record, now, made, prev, last, lockHolder, fileLock,
                   tsVars, modes, how>>

\* Record::get_last_bury, record.rs:128-151: the file is read to its end and
\* the rows are scanned newest first.  Without stale rows the call returns
\* and drops its handle; with stale rows the handle goes to delete_lines,
\* its offset at the end of the file.
GlRead(p) ==
    /\ proc[p].pc = "gl_read"
    /\ \E scan \in {ScanLast(Body(Lines(record)), Len(Body(Lines(record))), fs, {})} :
          IF scan.res = "panic" \/ scan.stale = {}
          THEN /\ proc' = [proc EXCEPT ![p] = EndCall(proc[p], scan.res)]
               /\ lockHolder' = Released(p)
          ELSE /\ proc' = [proc EXCEPT ![p].pc = "dl_read", ![p].off = Len(record),
                              ![p].todo = <<[Head(proc[p].todo) EXCEPT
                                               !.graves = scan.stale,
                                               !.dest = scan.dest]>>
                                          \o Tail(proc[p].todo)]
               /\ UNCHANGED lockHolder
    /\ UNCHANGED <<fs, gdirs, gyard, record, now, made, prev, last, fileLock, tsVars, modes, how>>

\* What one process may be asked to do: bury the file, unbury the grave,
\* list the graves of the directory, or ask for the last burial
LiveCalls ==
    {[op |-> "bury", source |-> EngineSource, dest |-> NoLoc, graves |-> {}],
     [op |-> "unbury", source |-> NoLoc, dest |-> NoLoc,
      graves |-> {join_absolute(EngineSource)}],
     [op |-> "seance", source |-> EngineSource, dest |-> NoLoc, graves |-> {}],
     [op |-> "get_last_bury", source |-> NoLoc, dest |-> NoLoc, graves |-> {}]}

\* A file, the grave of an earlier file of the same path, and a newer row
\* whose grave is gone; locking is enabled
InitLive ==
    /\ fs = Put(Put(<<>>, EngineSource, File(1, 100)),
                join_absolute(EngineSource), File(0, 100))
    /\ gdirs = {EngineSource.dir}
    /\ gyard = TRUE
    /\ record = write_log(write_log(RecordNew(NoFile), 0, EngineSource,
                                    join_absolute(EngineSource)),
                          1, WithSuffix(EngineSource, 1),
                          join_absolute(WithSuffix(EngineSource, 1)))
    /\ now = 2
    /\ made = 1
    /\ prev = Older(NoOp)
    /\ last = NoOp
    /\ \E c \in [Procs -> LiveCalls] : proc = [p \in Procs |-> Running(<<c[p]>>)]
    /\ lockHolder = 0
    /\ fileLock = TRUE
    /\ NoStamp
    /\ modes = NoModes
    /\ how = NoHow

\* One step of process p
StepLive(p) ==
    \/ BuMove(p)
    \/ WlExists(p)
    \/ WlOpen(p)
    \/ UbOpen(p)
    \/ SeOpen(p)
    \/ GlOpen(p)
    \/ Lock(p)
    \/ UbNext(p)
    \/ UbMove(p)
    \/ UbEnd(p)
    \/ SeRead(p)
    \/ GlRead(p)
    \/ DlOpen(p)
    \/ DlRead(p)
    \/ DlTrunc(p)
    \/ Write(p)
    \/ Close(p)

NextLive == \E p \in Procs : StepLive(p)

\* lock_exclusive blocks until the lock is free, and a process that is not
\* blocked goes on: weak fairness of the steps of every process
SpecLive == InitLive /\ [][NextLive]_vars /\ \A p \in Procs : WF_vars(StepLive(p))

---------------------------------------------------------------------------
\* The permission bits of directories.  A directory is the sequence of the
\* names on its path, <<>> being the root; modes maps the directories that
\* exist to their permission bits.  The target of a move is a file of a
\* directory of the user or a directory of the user with its subdirectories.

\* The permission bits a directory can have: 0o700 and 0o755
DirModes == {OwnerOnly, graveyard_mode(18)}

IsPrefixOf(a, b) == Len(a) <= Len(b) /\ SubSeq(b, 1, Len(a)) = a

\* The components of a path from the root down to the path itself
\* (lib.rs:302-309, 312-319)
Components(path) == [i \in 1..(Len(path) + 1) |-> SubSeq(path, 1, i - 1)]

\* util::join_absolute(graveyard, path)
JoinAbsolute(graveyard, path) == graveyard \o path

\* fs::create_dir_all(dir): the missing directories on the way are made with
\* the bits the umask leaves
create_dir_all(m, dir, umask) ==
    [d \in DOMAIN m \cup {Components(dir)[i] : i \in 1..(Len(dir) + 1)} |->
        IF d \in DOMAIN m THEN m[d] ELSE graveyard_mode(umask)]

RECURSIVE SetAlong(_, _, _, _, _)
\* lib.rs:326-344: for i in 0..src_len, the bits of the i-th component of
\* the source, when it is a directory, are set on component i + offset of
\* the destination, when that exists
SetAlong(m, src, dst, offset, i) ==
    IF i > Len(src) THEN m
    ELSE SetAlong(IF src[i] \in DOMAIN m /\ dst[i + offset] \in DOMAIN m
                  THEN [m EXCEPT ![dst[i + offset]] = m[src[i]]]
                  ELSE m,
                  src, dst, offset, i + 1)

\* create_dirs_with_permissions matching the components from the root of
\* both paths, not from their ends
create_dirs_with_permissions_modes_from_root(m, source, dest, umask) ==
    LET made1 == create_dir_all(m, SubSeq(dest, 1, Len(dest) - 1), umask)
        src == Components(SubSeq(source, 1, Len(source) - 1))
        dst == Components(SubSeq(dest, 1, Len(dest) - 1))
    IN  IF Len(dst) >= Len(src)
        THEN SetAlong(made1, src, dst, 0, 1)
        ELSE made1

\* create_dirs_with_permissions(source, dest), lib.rs:288-349, on the
\* permission bits: the parent of dest is created, and the bits of the
\* ancestors of source are set on the ancestors of dest at the same distance
\* from the end
create_dirs_with_permissions_modes(m, source, dest, umask) ==
    LET made1 == create_dir_all(m, SubSeq(dest, 1, Len(dest) - 1), umask)
        src == Components(SubSeq(source, 1, Len(source) - 1))
        dst == Components(SubSeq(dest, 1, Len(dest) - 1))
    IN  IF Len(dst) >= Len(src)
        THEN SetAlong(made1, src, dst, Len(dst) - Len(src), 1)
        ELSE made1

\* move_dir (lib.rs:403-437, 451) on the permission bits: every directory of
\* the walk is made under dest with the bits of its source, and the source
\* tree is removed
move_dir_modes(m, target, dest) ==
    LET walked == {d \in DOMAIN m : IsPrefixOf(target, d)}
        under(d) == dest \o SubSeq(d, Len(target) + 1, Len(d))
    IN  [e \in (DOMAIN m \ walked) \cup {under(d) : d \in walked} |->
            IF \E d \in walked : under(d) = e
            THEN m[CHOOSE d \in walked : under(d) = e]
            ELSE m[e]]

\* The copying part of move_target (lib.rs:368-373) on the permission bits
move_target_modes(m, target, dest, isDir, umask) ==
    LET m1 == create_dirs_with_permissions_modes(m, target, dest, umask)
    IN  IF isDir THEN move_dir_modes(m1, target, dest) ELSE m1

\* The tree of the user: /h/x holds the file a and the directory s
UserDirs == {<<>>, <<"h">>, <<"h", "x">>, <<"h", "x", "s">>}

\* The targets of a bury: the file, the directory without subdirectories,
\* the directory with one
PermTargets ==
    {[path |-> <<"h", "x", "a">>, isDir |-> FALSE],
     [path |-> <<"h", "x", "s">>, isDir |-> TRUE],
     [path |-> <<"h", "x">>, isDir |-> TRUE]}

\* The graveyard roots
Graveyards == {<<"g">>, <<"t", "g">>}

\* The directories of the user and the graveyard root exist with some
\* permission bits; the mirrored directories of /h and /h/x may exist from
\* an earlier bury.  One process is about to bury a target by copying.
InitPerms ==
    /\ \E g \in Graveyards, tg \in PermTargets, umask \in Umasks, earlier \in BOOLEAN :
       \E m \in [UserDirs \cup {Components(g)[i] : i \in 1..(Len(g) + 1)}
                   \cup (IF earlier
                         THEN {JoinAbsolute(g, <<"h">>), JoinAbsolute(g, <<"h", "x">>)}
                         ELSE {})
                 -> DirModes] :
          /\ modes = m
          /\ proc = [p \in Procs |->
                       IF p = 1
                       THEN Running(<<[op |-> "move_modes", target |-> tg.path,
                                       isDir |-> tg.isDir, graveyard |-> g,
                                       umask |-> umask]>>)
                       ELSE IdleProc]
    /\ fs = << >>
    /\ gdirs = {}
    /\ gyard = TRUE
    /\ record = RecordNew(NoFile)
    /\ now = 0
    /\ made = 0
    /\ prev = Older(NoOp)
    /\ last = NoOp
    /\ lockHolder = 0
    /\ fileLock = TRUE
    /\ NoStamp
    /\ how = NoHow

\* The burial by copying of process p, as far as permission bits go
MoveModes(p) ==
    /\ proc[p].pc = "start"
    /\ Head(proc[p].todo).op = "move_modes"
    /\ LET call == Head(proc[p].todo)
       IN  /\ modes' = move_target_modes(modes, call.target,
                                         JoinAbsolute(call.graveyard, call.target),
                                         call.isDir, call.umask)
           /\ how' = [modes0 |-> modes, target |-> call.target, isDir |-> call.isDir,
                      graveyard |-> call.graveyard]
           /\ last' = [NoOp EXCEPT !.op = "move_modes", !.res = "Ok"]
    /\ proc' = [proc EXCEPT ![p] = EndCall(proc[p], "Ok")]
    /\ prev' = Older(last)
    /\ UNCHANGED <<fs, gdirs, gyard, record, now, made, lockHolder, fileLock, tsVars>>

NextPerms == \E p \in Procs : MoveModes(p)

SpecPerms == InitPerms /\ [][NextPerms]_vars

---------------------------------------------------------------------------
\* Rows written from path strings
\*
\* A path string is a sequence of characters.  Besides ordinary characters a
\* file name on Unix may hold a tab, a newline and bytes that are not UTF-8.

\* The longest file name drawn
MaxNameLen == 2

Plain == Word("a")              \* an ordinary character
InvalidByte == Word("invalid")  \* a byte that is not valid UTF-8
Replacement == Word("U+FFFD")   \* what Display writes in place of such a byte
NameChars == {Plain, Tab, Nl, InvalidByte}

\* The file names of one to MaxNameLen characters
Names == UNION {[1..n -> NameChars] : n \in 1..MaxNameLen}

\* Path::display: the characters as they are, an invalid byte replaced
display(path) ==
    [i \in 1..Len(path) |-> IF path[i] = InvalidByte THEN Replacement ELSE path[i]]

\* Record::write_log with the paths as text: "{time}\t{source}\t{dest}\n"
\* after the header when the file is new (record.rs:249-259)
write_log_text(rec, t, source, dest) ==
    (IF rec # NoFile THEN rec ELSE HeaderLine \o <<Nl>>)
        \o <<TimeAtom(t), Tab>> \o display(source) \o <<Tab>> \o display(dest) \o <<Nl>>

\* The text of the graveyard path and of the directory of the buried file
GraveText == <<Word("/g")>>
HomeText == <<Word("/h/")>>

\* The record files a row is appended to: none, the header, the header and a row
TextRecords ==
    {NoFile, HeaderLine \o <<Nl>>,
     write_log_text(NoFile, 0, HomeText \o <<Plain>>, GraveText \o HomeText \o <<Plain>>)}

\* A file of any name is buried under the graveyard, with a numeric suffix
\* when the grave was taken (lib.rs:202-206); its row is to be written.
InitRows ==
    /\ \E name \in Names, taken \in BOOLEAN, rec \in TextRecords :
          /\ record = rec
          /\ proc = [p \in Procs |->
                       IF p = 1
                       THEN Running(<<[op |-> "write_log_text",
                                       source |-> HomeText \o name,
                                       dest |-> GraveText \o HomeText \o name
                                                \o (IF taken THEN <<Word("~1")>> ELSE <<>>)]>>)
                       ELSE IdleProc]
    /\ fs = << >>
    /\ gdirs = {}
    /\ gyard = TRUE
    /\ now = 1
    /\ made = 0
    /\ prev = Older(NoOp)
    /\ last = NoOp
    /\ lockHolder = 0
    /\ fileLock = TRUE
    /\ NoStamp
    /\ modes = NoModes
    /\ how = NoHow

\* record.write_log(source, dest) by process p
WriteLogText(p) ==
    /\ proc[p].pc = "start"
    /\ Head(proc[p].todo).op = "write_log_text"
    /\ LET call == Head(proc[p].todo)
       IN  /\ record' = write_log_text(record, now, call.source, call.dest)
           /\ how' = [source |-> call.source, dest |-> call.dest, rec0 |-> record]
    /\ last' = [NoOp EXCEPT !.op = "write_log_text", !.res = "Ok"]
    /\ proc' = [proc EXCEPT ![p] = EndCall(proc[p], "Ok")]
    /\ prev' = Older(last)
    /\ UNCHANGED <<fs, gdirs, gyard, now, made, lockHolder, fileLock, tsVars, modes>>

NextRows == \E p \in Procs : WriteLogText(p)

SpecRows == InitRows /\ [][NextRows]_vars

---------------------------------------------------------------------------
\* The last operation buried a regular file outside the graveyard
Buried(o) == o.op = "bury" /\ o.moved /\ o.target.area = "src"

\* The last operation was an unbury without destinations and without --seance
UnburiedLast(o) == o.op = "unbury" /\ o.explicit = {} /\ ~o.seance

\* C1: after bury(F) the file F is absent from its original path and present,
\* with its content, in the graveyard where the mirrored path of F exists;
\* after bury(F) followed by unbury with no explicit destinations, F is back
\* at its original path with identical content.
C1_BuryUnburyRestores ==
    /\ Buried(last) =>
          /\ ~symlink_exists(fs, last.target)
          /\ symlink_exists(fs, join_absolute(last.target))
          /\ symlink_exists(fs, last.dest) /\ fs[last.dest] = last.file
    /\ UnburiedLast(last) /\ Buried(prev) =>
          /\ symlink_exists(fs, prev.target)
          /\ fs[prev.target] = prev.file

\* C5: in bury, unbury, bury, unbury of one path the header of the log is
\* preserved by every step, and after each unbury the log has as many rows
\* as before the preceding bury.
C5_RowCountReturns ==
    /\ Buried(last) => FirstLine(record) = last.h0
    /\ UnburiedLast(last) /\ Buried(prev) =>
          /\ FirstLine(record) = prev.h0
          /\ Len(Rows(record)) = prev.n0

\* C8: when the mirrored destination X of a buried object already exists,
\* the destination used is X~N for the smallest N >= 1 such that X~N does not
\* exist; when X is free the destination is X itself.
C8_LowestFreeSuffix ==
    Buried(last) =>
        LET X == join_absolute(last.target)
        IN  IF last.taken
            THEN \E n \in last.free0 :
                    /\ last.dest = WithSuffix(X, n)
                    /\ \A m \in 1..(n - 1) : m \notin last.free0
            ELSE last.dest = X

\* C8: an object was buried at X~2 because X and X~1 were taken
C8_Witness ==
    /\ Buried(last) /\ last.taken
    /\ last.dest = WithSuffix(join_absolute(last.target), 2)
    /\ fs[last.dest] = last.file

---------------------------------------------------------------------------
\* Properties of the provenance log

\* C4: whenever the record file exists its first line is the header
C4_HeaderIsFirstLine ==
    record # NoFile => Lines(record) # <<>> /\ Head(Lines(record)) = HeaderLine

DestOf(row) == AsLoc(RowDest(row))

\* The rows of rec are n >= 1 rows whose graves are gone, then one whose grave exists
StaleThenLive(rec, f, n) ==
    LET rows == Rows(rec)
    IN  /\ n >= 1
        /\ Len(rows) = n + 1
        /\ AllWellFormed(rows)
        /\ \A i \in 1..n : ~symlink_exists(f, DestOf(rows[i]))
        /\ symlink_exists(f, DestOf(rows[n + 1]))

\* C6 as stated: on N stale rows followed by one live row, get_last_bury
\* returns the destination of the live row and removes the N stale rows.
C6_PrunesOlderStaleRows ==
    \A n \in 1..MaxClock :
        last.op = "get_last_bury" /\ StaleThenLive(last.rec0, fs, n) =>
            /\ last.res = "Ok"
            /\ last.dest = DestOf(Rows(last.rec0)[n + 1])
            /\ \A i \in 1..n :
                  \A j \in 1..Len(Rows(record)) : Rows(record)[j] # Rows(last.rec0)[i]

\* C6 amended: on N stale rows followed by one live row, get_last_bury
\* returns the destination of the live row and leaves the log unchanged (the
\* stale rows are older than the live row, are not scanned and stay).
C6_ReturnsLiveKeepsOlder ==
    \A n \in 1..MaxClock :
        last.op = "get_last_bury" /\ StaleThenLive(last.rec0, fs, n) =>
            /\ last.res = "Ok"
            /\ last.dest = DestOf(Rows(last.rec0)[n + 1])
            /\ record = last.rec0

\* C6: get_last_bury has run on two stale rows followed by a live one
C6_Witness ==
    /\ last.op = "get_last_bury"
    /\ StaleThenLive(last.rec0, fs, 2)
    /\ last.res = "Ok"

NotExhumed(row) == DestOf(row) \notin last.graves

\* C7: log_exhumed_graves(G) leaves the header line followed by exactly the
\* rows whose destination is not in G, unaltered and in their original order.
C7_DeleteRowsKeepsOthers ==
    last.op = "log_exhumed_graves" =>
        /\ last.res = "Ok"
        /\ Lines(record) = <<FirstLine(last.rec0)>> \o SelectSeq(Rows(last.rec0), NotExhumed)
        /\ record = Flatten(Lines(record))

\* C7: a row between two others was deleted and the two were kept
C7_Witness ==
    /\ last.op = "log_exhumed_graves"
    /\ Len(Rows(last.rec0)) = 3
    /\ Len(Rows(record)) = 2
    /\ DestOf(Rows(last.rec0)[2]) \in last.graves
    /\ Rows(record) = <<Rows(last.rec0)[1], Rows(last.rec0)[3]>>

\* C9: on a record file whose first line is not the header, every query
\* fails with InvalidData.
C9_QueriesRejectForeignHeader ==
    /\ last.op \in {"seance", "lines_of_graves", "get_last_bury"}
    /\ FirstLine(last.rec0) # HeaderLine
    => last.res = "InvalidData"

---------------------------------------------------------------------------
\* Claims about the time column

\* The number of whitespace-separated words of the text: the positions that
\* hold a non-whitespace character and follow the start or a whitespace
WordStarts(time) ==
    {i \in 1..Len(time) : time[i] # Space /\ (i = 1 \/ time[i - 1] = Space)}

LegacyLooking(time) ==
    /\ Cardinality(WordStarts(time)) = 5
    /\ \A i \in 1..Len(time) : time[i] \in {Alnum, Space, Colon}

\* C10: listing a row whose time column does not parse as RFC3339 fails with
\* InvalidData; a text of exactly five whitespace-separated words made only
\* of ASCII alphanumerics, whitespace and ':' gets the error that names the
\* timestamp and tells to delete the log; any other unparsable text gets the
\* generic parse failure; a text that parses gets no error.
C10_TimestampErrors ==
    tsres.done =>
        /\ tsres.rfc => tsres.ok /\ tsres.kind = "none"
        /\ ~tsres.rfc =>
              /\ ~tsres.ok
              /\ tsres.kind = "InvalidData"
              /\ tsres.names = ts
              /\ LegacyLooking(ts) =>
                    tsres.msg = "from old rip format: delete the .record file and start over"
              /\ ~LegacyLooking(ts) =>
                    tsres.msg = "Failed to parse time as RFC3339 format"

\* C10: a five-word text with a ':' in it was listed and got the legacy error
C10_Witness ==
    /\ tsres.done
    /\ tsres.msg = "from old rip format: delete the .record file and start over"
    /\ \E i \in 1..Len(ts) : ts[i] = Colon
    /\ \E i \in 1..(Len(ts) - 1) : ts[i] = Space /\ ts[i + 1] = Space

---------------------------------------------------------------------------
\* Claims about concurrent processes

AllDone == \A p \in Procs : proc[p].pc = "done"

\* The lines of the record equal to the row of a write_log call
RowsOf(call) ==
    {i \in 1..Len(Lines(record)) : Lines(record)[i] = RowLine(now, call.source, call.dest)}

\* The rows the appenders write
AppendRows ==
    {RowLine(now, AppSource(p, k), AppDest(p, k)) : p \in Procs, k \in 1..MaxAppends}

IsPrefix(s, t) == Len(s) <= Len(t) /\ s = SubSeq(t, 1, Len(s))

\* C2: with locking, at every moment each line after the header is a whole
\* row of one call, the last one possibly still being written; and when two
\* appenders have each called write_log MaxAppends times on an existing log,
\* the log is the header followed by 2 * MaxAppends rows, every call's row
\* being there exactly once
C2_AppendsSerialized ==
    fileLock =>
        /\ Lines(record)[1] = HeaderLine
        /\ \A i \in 2..Len(Lines(record)) :
              IF i = Len(Lines(record)) /\ record[Len(record)] # Nl
              THEN \E row \in AppendRows : IsPrefix(Lines(record)[i], row)
              ELSE Lines(record)[i] \in AppendRows
        /\ AllDone =>
              /\ record[Len(record)] = Nl
              /\ Len(Lines(record)) = 2 * MaxAppends + 1
              /\ \A p \in Procs : \A k \in 1..MaxAppends :
                    Cardinality(RowsOf(AppendCalls(p)[k])) = 1

\* C2: both appenders are done and their rows alternate in the log
C2_Witness ==
    /\ fileLock /\ AllDone
    /\ Len(Lines(record)) = 2 * MaxAppends + 1
    /\ Lines(record)[2] = RowLine(now, AppSource(2, 1), AppDest(2, 1))
    /\ Lines(record)[3] = RowLine(now, AppSource(1, 1), AppDest(1, 1))
    /\ \A p \in Procs : Len(proc[p].ran) = MaxAppends

\* The destinations some process deleted from the log
DeletedSet ==
    UNION {{proc[p].ran[i].call.graves : i \in 1..Len(proc[p].ran)} : p \in Procs}

\* C3: with locking, when an append by one process and a delete-rows rewrite
\* by another are both done, the log contains the appended row unless its
\* destination is in the deleted set
C3_AppendSurvivesRewrite ==
    (fileLock /\ AllDone) =>
        \A p \in Procs : \A i \in 1..Len(proc[p].ran) :
            LET call == proc[p].ran[i].call
            IN  (/\ call.op = "write_log"
                 /\ proc[p].ran[i].res = "Ok"
                 /\ \A g \in DeletedSet : call.dest \notin g)
                => RowsOf(call) # {}

\* The row-format check of _test_concurrent_writes
\* (tests/integration_tests.rs:1083-1091): a timestamp, a tab, some text, a
\* tab, some text
RowFormatOk(line) ==
    /\ Len(line) >= 5
    /\ line[1].k = "time"
    /\ line[2] = Tab
    /\ \E j \in 4..(Len(line) - 1) : line[j] = Tab

\* How many times the atom a occurs in s
Occurrences(s, a) == Cardinality({i \in 1..Len(s) : s[i] = a})

\* C11: without locking no appender ever takes or waits for the lock, and
\* every piece written reaches the log: when both appenders are done the log
\* holds the header and the six pieces of each row, in some order
C11_UnlockedAppendsAllLand ==
    ~fileLock =>
        /\ lockHolder = 0
        /\ AllDone =>
              /\ Len(record) = Len(HeaderLine) + 1 + 6 * Cardinality(Procs)
              /\ \A p \in Procs :
                    /\ Occurrences(record, PathAtom(AppSource(p, 1))) = 1
                    /\ Occurrences(record, PathAtom(AppDest(p, 1))) = 1

\* C11: without locking both appenders are done and a row of the log fails
\* the row-format check
C11_Witness ==
    /\ ~fileLock /\ AllDone
    /\ \E i \in 2..Len(Lines(record)) : ~RowFormatOk(Lines(record)[i])

---------------------------------------------------------------------------
\* Claims about the relocation engine

\* The last operation was a bury, without --inspect, of an object outside
\* the graveyard that rename could not move
CopiedBury == last.op = "bury" /\ last.target.area = "src" /\ ~how.inspect /\ ~how.allow_rename

BigFile(file) == file.kind = "file" /\ file.len > BIG_FILE_THRESHOLD

\* The object was removed for good: it is neither at its path nor at the
\* destination chosen, and no row was added
DeletedForGood ==
    /\ ~symlink_exists(fs, last.target)
    /\ ~symlink_exists(fs, last.dest)
    /\ ~last.moved
    /\ Len(Rows(record)) = last.n0

\* The object lies at the destination chosen in the graveyard
NowInGraveyard ==
    /\ ~symlink_exists(fs, last.target)
    /\ symlink_exists(fs, last.dest) /\ fs[last.dest] = last.file
    /\ last.dest.area = "grave"
    /\ last.moved

\* C12 as stated: copying a file above the threshold without force, the
\* prompt being answered no, deletes the original and creates no
\* destination; with force the file is copied without any prompt.
C12_DeniedPromptDeletes ==
    CopiedBury /\ BigFile(last.file) =>
        /\ ~how.force /\ ~how.big => DeletedForGood
        /\ how.force => NowInGraveyard /\ how.asked = {}

\* C12 amended: copying a file above the threshold without force asks whether
\* to delete the file instead; answered yes, the original is deleted and no
\* destination is created; answered no, the file is copied to the graveyard;
\* with force the file is copied without any prompt.
C12_AcceptedPromptDeletes ==
    CopiedBury /\ BigFile(last.file) =>
        /\ ~how.force => how.asked = {"big"}
        /\ ~how.force /\ how.big => DeletedForGood /\ last.res = "Ok"
        /\ ~how.force /\ ~how.big => NowInGraveyard
        /\ how.force => NowInGraveyard /\ how.asked = {}

\* C12: a big file was deleted for good after the prompt was answered yes
C12_Witness ==
    /\ CopiedBury /\ BigFile(last.file)
    /\ ~how.force /\ how.big /\ how.asked = {"big"}
    /\ DeletedForGood

\* The buried object now lies at the destination chosen and no longer at its path
Relocated ==
    /\ last.target.area = "src"
    /\ ~symlink_exists(fs, last.target)
    /\ symlink_exists(fs, last.dest) /\ fs[last.dest] = last.file

\* C13: a bury appends exactly one row, with the source as original and the
\* chosen graveyard path as destination, when the object was relocated into
\* the graveyard, and no row otherwise (permanent deletion chosen,
\* inspection declined, move failed)
C13_RowIffRelocated ==
    last.op = "bury" =>
        /\ last.moved <=> Relocated
        /\ FirstLine(record) = HeaderLine
        /\ IF Relocated
           THEN /\ Len(Rows(record)) = last.n0 + 1
                /\ AsLoc(RowOrig(Rows(record)[last.n0 + 1])) = last.target
                /\ AsLoc(RowDest(Rows(record)[last.n0 + 1])) = last.dest
           ELSE Len(Rows(record)) = last.n0

\* C13: a second object of the same path was buried and got the second row
C13_Witness ==
    /\ last.op = "bury" /\ Relocated
    /\ last.n0 = 1 /\ Len(Rows(record)) = 2
    /\ AsLoc(RowDest(Rows(record)[2])) = WithSuffix(join_absolute(last.target), 1)

---------------------------------------------------------------------------
\* Claims about unbury

\* C14: unbury without destinations and without --seance restores exactly
\* one grave, that of the newest row whose destination exists, and removes
\* that row alone; when no row has an existing destination nothing is
\* restored and nothing appears outside the graveyard.
C14_RestoresNewestLive ==
    UnburiedLast(last) =>
        IF last.live0 = NoLoc
        THEN /\ last.origs = <<>>
             /\ \A l \in DOMAIN fs \ GraveLocs(fs) : l \in DOMAIN last.src0
        ELSE /\ last.graves = {last.live0}
             /\ Len(last.origs) = 1
             /\ ~symlink_exists(fs, last.live0)
             /\ symlink_exists(fs, last.origs[1])
             /\ Len(Rows(record)) = last.n0 - 1
             /\ last.live0 \notin RecordedDests(record)

\* The paths outside the graveyard that are occupied when the i-th grave of
\* the last unbury is returned
OccupiedAt(i) == DOMAIN last.src0 \cup {last.origs[j] : j \in 1..(i - 1)}

\* The first name~N that is not occupied
FirstFree(l, occupied) ==
    WithSuffix(l, CHOOSE n \in 1..(MaxSuffix + 1) :
                     /\ WithSuffix(l, n) \notin occupied
                     /\ \A m \in 1..(n - 1) : WithSuffix(l, m) \in occupied)

\* C15: an unbury leaves every object outside the graveyard where and as it
\* was; a grave whose recorded original path is occupied is returned to that
\* path with the first free ~N suffix, the others to the recorded path
C15_UnburyNeverOverwrites ==
    last.op = "unbury" =>
        /\ \A l \in DOMAIN last.src0 : symlink_exists(fs, l) /\ fs[l] = last.src0[l]
        /\ Len(last.entries) = Len(last.origs)
        /\ \A i \in 1..Len(last.origs) :
              /\ symlink_exists(fs, last.origs[i])
              /\ last.origs[i] = IF last.entries[i] \in OccupiedAt(i)
                                 THEN FirstFree(last.entries[i], OccupiedAt(i))
                                 ELSE last.entries[i]

\* C15: a grave was returned beside the object that occupies its original path
C15_Witness ==
    /\ last.op = "unbury" /\ last.res = "Ok"
    /\ Len(last.origs) = 1
    /\ last.entries[1] \in DOMAIN last.src0
    /\ last.origs[1] = WithSuffix(last.entries[1], 1)
    /\ fs[last.entries[1]] = last.src0[last.entries[1]]
    /\ fs[last.origs[1]] # fs[last.entries[1]]

\* C16: the prefix query yields the rows whose destination is under the
\* prefix and leaves the log alone; unbury combined with --seance restores
\* every grave so listed for the current directory: after the run none of
\* the listed graves is still in the graveyard
C16_SeanceUnburyRestoresListed ==
    (last.op = "unbury" /\ last.seance /\ last.explicit = {}) =>
        \A g \in last.graves : ~symlink_exists(fs, g)

\* C17: the relocation engine never holds the log lock while moving or
\* copying objects: no process that is about to call move_target, in a bury
\* or in an unbury, holds the exclusive lock on the log
C17_NoLockDuringMove ==
    \A p \in Procs : AtMove(p) => lockHolder # p

---------------------------------------------------------------------------
\* Claims about prompts and force

SpecialFile(file) == file.kind = "special"

\* The object is still at its path, nothing lies at the destination chosen
\* and no row was added
LeftInPlace ==
    /\ symlink_exists(fs, last.target) /\ fs[last.target] = last.file
    /\ ~symlink_exists(fs, last.dest)
    /\ ~last.moved
    /\ Len(Rows(record)) = last.n0

\* C18 as stated: when the generic copy of a special file fails and force is
\* not set, the collaborator is asked whether to delete instead: declining
\* returns false (the caller deletes only), accepting propagates the copy
\* error.
C18_DeclineDeletes ==
    CopiedBury /\ SpecialFile(last.file) /\ ~how.copies /\ ~how.force =>
        /\ how.asked = {"special"}
        /\ ~how.special => DeletedForGood /\ last.res = "Ok"
        /\ how.special => LeftInPlace /\ last.res = "Failed to bury file"

\* C18 amended: when the generic copy of a special file fails and force is
\* not set, the collaborator is asked whether to delete instead: accepting
\* returns false (the copy is skipped, the caller deletes only), declining
\* propagates the copy error.
C18_AcceptDeletes ==
    CopiedBury /\ SpecialFile(last.file) /\ ~how.copies /\ ~how.force =>
        /\ how.asked = {"special"}
        /\ how.special => DeletedForGood /\ last.res = "Ok"
        /\ ~how.special => LeftInPlace /\ last.res = "Failed to bury file"

\* C18: the prompt for a special file was declined and the bury failed
C18_Witness ==
    /\ CopiedBury /\ SpecialFile(last.file) /\ ~how.copies /\ ~how.force
    /\ how.asked = {"special"} /\ ~how.special
    /\ last.res = "Failed to bury file" /\ LeftInPlace

\* C19: burying a special file whose copy fails, without force and with the
\* delete prompt answered yes, makes run return Ok with the source no longer
\* existing, no grave created and no row appended
C19_SpecialFileDeleted ==
    (/\ last.op = "bury" /\ SpecialFile(last.file)
     /\ ~how.force /\ ~how.copies /\ "special" \in how.asked /\ how.special) =>
        /\ last.res = "Ok"
        /\ ~symlink_exists(fs, last.target)
        /\ ~symlink_exists(fs, last.dest)
        /\ \A l \in GraveLocs(fs) : fs[l] # last.file
        /\ ~last.moved
        /\ Len(Rows(record)) = last.n0

\* C19: a socket was deleted after the prompt was answered yes, next to the
\* grave and the row of an earlier file of the same path
C19_Witness ==
    /\ last.op = "bury" /\ SpecialFile(last.file)
    /\ ~how.force /\ ~how.copies /\ "special" \in how.asked /\ how.special
    /\ last.res = "Ok" /\ ~symlink_exists(fs, last.target)
    /\ last.n0 = 1 /\ Len(Rows(record)) = 1

---------------------------------------------------------------------------
\* Claims about whole invocations

\* The last operation was a run that went through its list of targets
BuryRun ==
    /\ last.op = "run" /\ validate_args(how.cli) = "Ok"
    /\ ~how.cli.decompose /\ ~how.cli.unbury /\ ~how.cli.seance

Steps == IF last.op = "run" THEN DOMAIN how.steps ELSE {}

\* The filesystem and the record before step i of the run
FsBefore(i) == IF i = 1 THEN how.fs0 ELSE how.steps[i - 1].fs1
RecBefore(i) == IF i = 1 THEN RecordNew(last.rec0) ELSE how.steps[i - 1].rec1

\* Step i reached the branch for a target inside the graveyard: the target
\* existed and the inspection, if any, was accepted
InGraveyardStep(i) ==
    /\ how.steps[i].target.area = "grave"
    /\ how.steps[i].existed
    /\ how.cli.inspect => how.ans.inspect

ExistsAfter(i) ==
    IF how.steps[i].target = RecordLoc THEN how.steps[i].rec1 # NoFile
    ELSE symlink_exists(how.steps[i].fs1, how.steps[i].target)

\* No row of the record rec has l as its original path
NeverLogged(rec, l) ==
    \A k \in 1..Len(Rows(rec)) :
        WellFormed(Rows(rec)[k]) => AsLoc(RowOrig(Rows(rec)[k])) # l

\* C21: a target that lies under the graveyard root is never relocated and
\* never logged: on confirmation or force it is removed for good, on decline
\* it is left in place, and in both cases the run goes on with the next target
C21_InGraveyardNeverBuried ==
    BuryRun =>
      \A i \in Steps :
        InGraveyardStep(i) =>
          /\ ~how.steps[i].moved /\ how.steps[i].dest = NoLoc
          /\ NeverLogged(how.steps[i].rec1, how.steps[i].target)
          /\ how.steps[i].res = "Ok"
          /\ how.cli.force => "grave" \notin how.steps[i].asked
          /\ ~how.cli.force => "grave" \in how.steps[i].asked
          /\ IF how.cli.force \/ how.ans.grave
             THEN /\ ~ExistsAfter(i)
                  /\ how.steps[i].fs1 =
                        [l \in DOMAIN FsBefore(i) \ {how.steps[i].target} |-> FsBefore(i)[l]]
             ELSE /\ how.steps[i].fs1 = FsBefore(i)
                  /\ how.steps[i].rec1 = RecBefore(i)
          /\ i < Len(how.cli.targets) => i + 1 \in Steps

\* C21: the user declined to unlink a grave given as first target, and the
\* file given next was buried
C21_Witness ==
    /\ BuryRun /\ Len(how.steps) >= 2
    /\ InGraveyardStep(1) /\ how.steps[1].target # RecordLoc
    /\ ~how.cli.force /\ ~how.ans.grave
    /\ symlink_exists(fs, how.steps[1].target)
    /\ how.steps[2].moved

\* C22: an attempt to bury the record file of the graveyard ends the run with
\* an error and leaves the record file in place
C22_RecordFileRefused ==
    BuryRun =>
      \A i \in Steps :
        how.steps[i].target = RecordLoc /\ how.steps[i].existed =>
          /\ how.steps[i].res # "Ok"
          /\ last.res = how.steps[i].res
          /\ how.steps[i].rec1 = RecBefore(i)

\* Target i of the run is a path of the user at which nothing lay when its
\* turn came
MissingAt(i) ==
    /\ how.cli.targets[i].area = "src"
    /\ ~symlink_exists(FsBefore(i), how.cli.targets[i])

\* The burial of step j is in effect in the filesystem f and the record
\* rec: the object lies in its grave and the row of the burial is in the record
InEffect(j, f, rec) ==
    /\ symlink_exists(f, how.steps[j].dest) /\ f[how.steps[j].dest] = how.steps[j].file
    /\ ~symlink_exists(f, how.steps[j].target)
    /\ \E k \in 1..Len(Rows(rec)) :
          /\ AsLoc(RowOrig(Rows(rec)[k])) = how.steps[j].target
          /\ AsLoc(RowDest(Rows(rec)[k])) = how.steps[j].dest

\* C23: the targets are processed in order; a target that does not exist
\* when its turn comes, as the second occurrence of a path whose first
\* occurrence was buried and logged, fails with NotFound; run returns that
\* error at once, the later targets are not processed and the earlier
\* burials stay in effect: the failing step changes neither the filesystem
\* nor the record
C23_MissingTargetEndsRun ==
    BuryRun =>
      /\ Len(how.steps) <= Len(how.cli.targets)
      /\ \A i \in Steps : how.steps[i].target = how.cli.targets[i]
      /\ \A i \in Steps :
           MissingAt(i) =>
             /\ how.steps[i].res = "NotFound" /\ last.res = "NotFound"
             /\ Len(how.steps) = i
             /\ fs = FsBefore(i) /\ record = RecBefore(i)
             /\ \A j \in 1..(i - 1) :
                   how.steps[j].moved =>
                     /\ InEffect(j, how.steps[j].fs1, how.steps[j].rec1)
                     /\ InEffect(j, FsBefore(i), RecBefore(i)) => InEffect(j, fs, record)
      /\ \A i \in Steps :
           (i > 1 /\ how.cli.targets[i] = how.cli.targets[i - 1] /\ how.steps[i - 1].moved)
              => MissingAt(i)

\* C23: the same file was given twice and another after it: the first
\* occurrence was buried, the second failed and the third was not processed
C23_Witness ==
    /\ BuryRun /\ Len(how.cli.targets) = 3 /\ Len(how.steps) = 2
    /\ how.cli.targets[1] = how.cli.targets[2]
    /\ how.steps[1].moved /\ InEffect(1, fs, record)
    /\ how.steps[2].res = "NotFound" /\ last.res = "NotFound"
    /\ how.cli.targets[3] # how.cli.targets[1]
    /\ symlink_exists(fs, how.cli.targets[3])

\* The last operation was a run with --decompose that passed validation
DecomposeRun == last.op = "run" /\ validate_args(how.cli) = "Ok" /\ how.cli.decompose

\* The objects outside the graveyard
Outside(f) == [l \in DOMAIN f \ GraveLocs(f) |-> f[l]]

\* C24: decompose, when confirmed or forced, removes the whole graveyard
\* directory with the log and restores nothing to the original paths; when
\* the confirmation is declined the graveyard, its graves and the log (as
\* opening the record leaves it) are unchanged
C24_DecomposeAllOrNothing ==
    DecomposeRun =>
      /\ Outside(fs) = Outside(how.fs0)
      /\ IF how.cli.force \/ how.ans.decompose
         THEN /\ ~gyard /\ gdirs = {} /\ GraveLocs(fs) = {}
              /\ record = NoFile
              /\ how.cli.force => how.asked = {}
         ELSE /\ gyard /\ gdirs = how.gdirs0
              /\ fs = how.fs0
              /\ record = RecordNew(last.rec0)
              /\ how.asked = {"decompose"}

\* C24: a graveyard holding a grave and its row was decomposed after the
\* prompt was answered yes
C24_Witness ==
    /\ DecomposeRun /\ ~how.cli.force /\ how.ans.decompose
    /\ GraveLocs(how.fs0) # {} /\ Len(Rows(last.rec0)) = 1
    /\ GraveLocs(fs) = {} /\ record = NoFile /\ ~gyard
    /\ Outside(fs) = Outside(how.fs0) /\ Outside(fs) # <<>>

\* C25: when a bury runs with --inspect and the user declines the prompt
\* "Send ... to the graveyard?", nothing happens to the target: it stays at
\* its path with its content, nothing is created under the graveyard and the
\* log is unchanged
C25_InspectDeclinedNoOp ==
    BuryRun /\ how.cli.inspect /\ ~how.ans.inspect =>
      \A i \in Steps :
        how.steps[i].existed =>
          /\ how.steps[i].asked = {"inspect"}
          /\ how.steps[i].res = "Ok" /\ ~how.steps[i].moved
          /\ how.steps[i].fs1 = FsBefore(i)
          /\ how.steps[i].rec1 = RecBefore(i)
          /\ fs = how.fs0 /\ gdirs = how.gdirs0 /\ record = RecordNew(last.rec0)

\* C25: the burial of a file of the user was declined at the inspection and
\* the file is still there
C25_Witness ==
    /\ BuryRun /\ how.cli.inspect /\ ~how.ans.inspect
    /\ Len(how.steps) >= 1 /\ how.steps[1].existed /\ how.steps[1].target.area = "src"
    /\ how.steps[1].asked = {"inspect"}
    /\ symlink_exists(fs, how.steps[1].target)
    /\ fs[how.steps[1].target] = how.steps[1].file
    /\ GraveLocs(fs) = {} /\ Rows(record) = <<>>

\* C26: when run creates the graveyard root directory on first use, the
\* directory has owner-only permissions (0700) once the creation is done
C26_GraveyardOwnerOnly ==
    (last.op = "run" /\ ~how.gyard0 /\ validate_args(how.cli) = "Ok") =>
        how.gmode = OwnerOnly

\* The messages of the InvalidInput errors of validate_args
ForceInspectError == "-f,--force and -i,--inspect cannot be used together"
DecomposeError == "-d,--decompose can only be used with --graveyard"

\* The run changed nothing: no graveyard was made, no target was touched
NothingChanged ==
    /\ fs = how.fs0 /\ gdirs = how.gdirs0 /\ gyard = how.gyard0
    /\ record = last.rec0
    /\ how.steps = <<>> /\ how.asked = {}

---------------------------------------------------------------------------
\* Claims about what the log keeps

\* The index of the newest row of rec whose grave exists in f, 0 when none does
NewestLiveIndex(rec, f) ==
    LET rows == Rows(rec)
        live == {i \in 1..Len(rows) :
                    WellFormed(rows[i]) /\ symlink_exists(f, AsLoc(RowDest(rows[i])))}
    IN  IF live = {} THEN 0 ELSE CHOOSE i \in live : \A j \in live : j <= i

\* C28: after get_last_bury the log is the header followed by every previous
\* row except the stale rows newer than the returned row (all of them when
\* NotFound is returned), in their order: the returned row, every older row
\* and the header remain
C28_PrunesOnlyNewerStale ==
    (last.op = "get_last_bury" /\ last.res \in {"Ok", "NotFound"}
     /\ last.rec0 # NoFile) =>
        /\ FirstLine(record) = HeaderLine
        /\ Rows(record) = SubSeq(Rows(last.rec0), 1, NewestLiveIndex(last.rec0, fs))

---------------------------------------------------------------------------
\* Claims about burials that fail midway

\* The last operation was a copying burial that returned an error
FailedBury == last.op = "bury_copying" /\ last.res = "Failed to bury file"

\* The prompt asking whether to delete the object instead was answered yes
ConfirmedDeletion(file) ==
    /\ ~how.opt.force
    /\ \/ file.len > BIG_FILE_THRESHOLD /\ how.opt.ans.big
       \/ file.kind = "special" /\ how.opt.ans.special

\* C29: when the copying move of a bury stops with an I/O failure at any
\* step, every file of the target still exists with its content at its
\* original path or under the destination in the graveyard, unless the user
\* confirmed its permanent deletion
C29_NoFileLostOnFailure ==
    FailedBury =>
      \A l \in DOMAIN how.fs0 :
        \/ ConfirmedDeletion(how.fs0[l])
        \/ symlink_exists(fs, l) /\ fs[l] = how.fs0[l]
        \/ symlink_exists(fs, join_absolute(l)) /\ fs[join_absolute(l)] = how.fs0[l]

\* C30: when the move fails during bury, bury returns the error "Failed to
\* bury file", appends no row and removes what was created at the
\* destination: no partly created grave remains (here the cleanup itself
\* meets no failure)
C30_FailedBuryLeavesNoGrave ==
    (FailedBury /\ how.stop = 0) =>
        /\ ~last.moved /\ record = last.rec0
        /\ GraveLocs(fs) = {}
        /\ last.dest.base = "" => last.dest.dir \notin gdirs

---------------------------------------------------------------------------
\* Claims about an unbury that fails midway

\* C31: when an unbury of several graves fails at one of them, the log is
\* left consistent with the graveyard: no row is left that names a grave
\* which this invocation moved out of the graveyard.
C31_FailedUnburyKeepsLogConsistent ==
    [][(last'.op = "unbury" /\ last'.res = "Unbury failed") =>
          \A i \in 1..Len(Rows(record')) :
             WellFormed(Rows(record')[i]) =>
                (symlink_exists(fs, AsLoc(RowDest(Rows(record')[i])))
                    => symlink_exists(fs', AsLoc(RowDest(Rows(record')[i]))))]_vars

---------------------------------------------------------------------------
\* Claims about the destinations the log records

\* C32: after any sequence of bury, unbury and permanent deletion inside the
\* graveyard, no two rows of the log record the same destination path.
C32_RowDestinationsUnique ==
    \A i, j \in 1..Len(Rows(record)) :
        (i # j /\ WellFormed(Rows(record)[i]) /\ WellFormed(Rows(record)[j]))
            => RowDest(Rows(record)[i]) # RowDest(Rows(record)[j])

---------------------------------------------------------------------------
\* Claims about concurrent burials

\* The calls of process p that ended well with a grave
BuriedBy(p) ==
    {i \in 1..Len(proc[p].ran) :
        proc[p].ran[i].res = "Ok" /\ proc[p].ran[i].call.dest # NoLoc}

\* C33: when several processes bury objects with the same mirrored
\* destination, for every interleaving no grave is overwritten or replaced
\* and the buried objects end up at distinct destinations.
C33_BuriersNeverCollide ==
    /\ \A l \in DOMAIN how.fs0 : \E m \in DOMAIN fs : fs[m].data = how.fs0[l].data
    /\ \A p, q \in Procs : \A i \in BuriedBy(p), j \in BuriedBy(q) :
          p # q => proc[p].ran[i].call.dest # proc[q].ran[j].call.dest

---------------------------------------------------------------------------
\* Claims about the creation of the log

\* C34: when the log is absent and several processes run Record::new and
\* write_log with locking enabled, the final log has the header exactly once,
\* as its first line, and holds the row of every write_log.
C34_CreationKeepsAppends ==
    (fileLock /\ AllDone) =>
        /\ record # NoFile
        /\ Lines(record)[1] = HeaderLine
        /\ Cardinality({i \in 1..Len(Lines(record)) : Lines(record)[i] = HeaderLine}) = 1
        /\ \A p \in Procs : RowsOf(AppendCalls(p)[1]) # {}

---------------------------------------------------------------------------
\* Claims about progress

\* Process p is blocked in lock_exclusive
Waiting(p) == proc[p].pc \in LockPoints /\ Locking /\ ~CanLock(p)

\* C35: with locking enabled and no process stalling, no process waits for
\* the lock while holding it through another handle, and every bury, unbury,
\* list and last-burial operation of every process eventually completes.
C35_EveryOperationCompletes ==
    /\ [](\A p \in Procs : proc[p].pc \in LockPoints => lockHolder # p)
    /\ <>[]AllDone

\* C35: both processes are done, one after a last-burial call that rewrote
\* the log through a second handle and one after an unbury
C35_Witness ==
    /\ AllDone /\ fileLock
    /\ \E p, q \in Procs :
          /\ p # q
          /\ proc[p].ran[1].call.op = "get_last_bury"
          /\ proc[p].ran[1].call.graves # {}
          /\ proc[q].ran[1].call.op = "unbury"

---------------------------------------------------------------------------
\* Claims about what an append leaves alone

\* The calls that have completed in the next state
CompletedNext == {c \in Procs \X (1..(2 * MaxAppends)) : c[2] <= Len(proc'[c[1]].ran)}

\* What C36 says of one step: the existing content stays in place, and a
\* write_log that completes leaves its row as the last line, after the
\* header and the rows of the appends completed before
AppendStepKeepsLines ==
    /\ IsPrefix(record, record')
    /\ \A p \in Procs :
          Len(proc'[p].ran) > Len(proc[p].ran) =>
             /\ record'[Len(record')] = Nl
             /\ Lines(record')[Len(Lines(record'))]
                   = RowLine(now, proc'[p].ran[Len(proc'[p].ran)].call.source,
                             proc'[p].ran[Len(proc'[p].ran)].call.dest)
             /\ Len(Lines(record')) = 1 + Cardinality(CompletedNext)

\* C36 as stated: an append leaves every existing line of the log unchanged
\* and in place, and after write_log the log is the previous content followed
\* by exactly one new row at the end: file order is the order of completion.
C36_AppendKeepsLines == [][AppendStepKeepsLines]_vars

\* C36 amended: with locking enabled an append leaves every existing line
\* unchanged and in place, and after write_log the log is the previous
\* content followed by exactly one new row at the end.
C36_LockedAppendKeepsLines == [][fileLock => AppendStepKeepsLines]_vars

\* C36: both appenders are done; the first append of process 1 completed
\* first and its row is still the first one, followed by rows of process 2
C36_Witness ==
    /\ fileLock /\ AllDone
    /\ Lines(record)[2] = RowLine(now, AppSource(1, 1), AppDest(1, 1))
    /\ Lines(record)[3] = RowLine(now, AppSource(2, 1), AppDest(2, 1))
    /\ Lines(record)[4] = RowLine(now, AppSource(2, 2), AppDest(2, 2))

---------------------------------------------------------------------------
\* Claims about directories moved by copying

\* The last operation buried a directory by copying, and the walk and the
\* removal of the original met no failure
CopiedDir ==
    /\ last.op = "bury_copying" /\ last.target.base = ""
    /\ how.fault.at = "none"

\* C37: moving a directory by the copy fallback returns true when the walk
\* and the removal of the original succeed, also when big files in it were
\* not copied because the user chose to delete them: those files are in
\* neither place, the other files are at the destination, the original tree
\* is gone and one row is appended for the directory.
C37_MoveDirAlwaysTrue ==
    CopiedDir =>
        /\ last.res = "Ok" /\ last.moved
        /\ record = write_log(last.rec0, now - 1, last.target, join_absolute(last.target))
        /\ \A l \in DOMAIN how.fs0 :
              /\ ~symlink_exists(fs, l)
              /\ IF ConfirmedDeletion(how.fs0[l])
                 THEN ~symlink_exists(fs, join_absolute(l))
                 ELSE /\ symlink_exists(fs, join_absolute(l))
                      /\ fs[join_absolute(l)] = how.fs0[l]

\* C37: a directory with a big file and a small one was moved by copying,
\* the user chose to delete the big file, and the row was appended
C37_Witness ==
    /\ CopiedDir /\ last.moved
    /\ Cardinality(DOMAIN how.fs0) = 2
    /\ \E l \in DOMAIN how.fs0 :
          ConfirmedDeletion(how.fs0[l]) /\ ~symlink_exists(fs, join_absolute(l))
    /\ \E l \in DOMAIN how.fs0 : symlink_exists(fs, join_absolute(l))
    /\ Len(Rows(record)) = 1

---------------------------------------------------------------------------
\* Claims about permission bits

\* The last operation moved a target to the graveyard by copying
MovedModes == last.op = "move_modes"

\* The directories above the target
AncestorsOf(path) == {Components(path)[i] : i \in 1..Len(path)}

\* C38: after a copy-fallback move of source S to graveyard_root + S, every
\* ancestor directory A of S has its permission bits on graveyard_root + A,
\* and every subdirectory of a moved directory tree has the permission bits
\* of its source subdirectory.
C38_BitsMirrored ==
    MovedModes =>
        /\ \A a \in AncestorsOf(how.target) :
              /\ JoinAbsolute(how.graveyard, a) \in DOMAIN modes
              /\ modes[JoinAbsolute(how.graveyard, a)] = how.modes0[a]
        /\ how.isDir =>
              \A d \in DOMAIN how.modes0 :
                 IsPrefixOf(how.target, d) =>
                    /\ JoinAbsolute(how.graveyard, d) \in DOMAIN modes
                    /\ modes[JoinAbsolute(how.graveyard, d)] = how.modes0[d]

\* C38: a directory with a subdirectory was moved under a graveyard two
\* levels below the root, and the bits of the directories differ
C38_Witness ==
    /\ MovedModes /\ how.isDir
    /\ how.target = <<"h", "x">> /\ Len(how.graveyard) = 2
    /\ how.modes0[<<"h">>] # how.modes0[<<"h", "x">>]
    /\ how.modes0[<<"h", "x">>] # how.modes0[<<"h", "x", "s">>]
    /\ modes[JoinAbsolute(how.graveyard, <<"h", "x", "s">>)] = how.modes0[<<"h", "x", "s">>]

\* C39: a bury changes permission bits only on destination directories it
\* newly created: the graveyard root and every directory that existed before
\* the bury have the same bits after it.
C39_ExistingBitsKept ==
    MovedModes =>
        \A d \in DOMAIN how.modes0 :
           d \in DOMAIN modes => modes[d] = how.modes0[d]

\* The lines that the row written last added to the record file
WrittenLines ==
    LET before == IF how.rec0 = NoFile THEN <<HeaderLine>> ELSE Lines(how.rec0)
    IN  SubSeq(Lines(record), Len(before) + 1, Len(Lines(record)))

\* C40: a row written by write_log from the paths (original, destination),
\* whatever characters they hold, a tab or a newline included, is exactly one
\* line of the log, and RecordItem::new of that line gives the same original
\* and the same destination.
C40_RowsRoundTrip ==
    last.op = "write_log_text" =>
        /\ Len(WrittenLines) = 1
        /\ WellFormed(WrittenLines[1])
        /\ RowOrig(WrittenLines[1]) = how.source
        /\ RowDest(WrittenLines[1]) = how.dest

====
